---- MODULE Spec2Model ----
(***************************************************************************)
(* Lumina-Scan: the perspective rectification core of src/src/utils.ts.    *)
(*                                                                         *)
(* One call of applyTransform(ctx, img, src, width, height) is modelled    *)
(* as a state machine: the 8x8 system is built, solveLinearSystem runs     *)
(* one outer-loop iteration per step, the source raster is read, the       *)
(* destination raster is allocated, the warp loop writes one destination   *)
(* pixel per step and putImageData publishes the result.                   *)
(*                                                                         *)
(* JavaScript numbers are modelled as exact rationals <<n, d>> in lowest   *)
(* terms with d > 0; the non-finite results of a division by zero are      *)
(* <<1, 0>> (+Infinity), <<-1, 0>> (-Infinity) and <<0, 0>> (NaN).         *)
(***************************************************************************)
EXTENDS Integers, Sequences, FiniteSets, TLC

\* ---------------------------------------------------------------- bounds
\* The caller's frame is 0..MaxCoord in both directions; a dragged or
\* detected corner may lie at (-k, -k) outside it, for k up to Overshoot.
MaxCoord == 2
Overshoot == 1
\* Output sizes range over 0..MaxOut, source raster sizes over 1..MaxSrc.
MaxOut == 2
MaxSrc == 2
\* At most MaxMoves pointer moves are handled in one run of the application.
MaxMoves == 1
\* The rotate button is pressed at most MaxTurns times.
MaxTurns == 1
\* Square roots are computed to 1/SqrtScale.
SqrtScale == 10
\* An import has at most MaxFiles files, a session at most MaxPages saved
\* pages and the library at most MaxScans records.
MaxFiles == 3
MaxPages == 3
MaxScans == 1
\* The server handles at most MaxRequests upload requests.
MaxRequests == 3

\* ------------------------------------------------------ program constants
\* n = A.length: 4 correspondences, 2 equations each.
N == 8
\* 1e-10 is 1 / (EpsRoot * EpsRoot).
EpsRoot == 100000
\* The background fill written for an out-of-bounds sample.
Fill == 255
\* Channels per pixel of an ImageData buffer.
Channels == 4
\* processCrop refuses a selection whose average side is below 10 pixels.
MinSize == 10
\* const maxDim = 2400.
maxDim == 2400
MaxUpload == 100
Gap == 40

\* ------------------------------------------------------ number arithmetic
Abs(n) == IF n < 0 THEN -n ELSE n

Sign(n) == IF n < 0 THEN -1 ELSE IF n > 0 THEN 1 ELSE 0

RECURSIVE GCD(_, _)
GCD(a, c) == IF c = 0 THEN a ELSE GCD(c, a % c)

\* The number n/d; d = 0 gives the non-finite value of the sign of n.
Norm(n, d) ==
  IF d = 0 THEN <<Sign(n), 0>>
  ELSE LET g == GCD(Abs(n), Abs(d))
           s == IF d < 0 THEN -1 ELSE 1
       IN  <<(s * n) \div g, (s * d) \div g>>

Num(k) == <<k, 1>>

IsFinite(r) == r[2] # 0

Add(r, s) == Norm(r[1] * s[2] + s[1] * r[2], r[2] * s[2])

Sub(r, s) == Norm(r[1] * s[2] - s[1] * r[2], r[2] * s[2])

Mul(r, s) == Norm(r[1] * s[1], r[2] * s[2])

\* r / s of two finite numbers; s = 0 gives +-Infinity or NaN.
Div(r, s) == Norm(r[1] * s[2], r[2] * s[1])

MathAbs(r) == <<Abs(r[1]), r[2]>>

\* r < s and r >= s as JavaScript compares numbers: every comparison with
\* NaN is false, -Infinity is below and +Infinity above every finite number.
Less(r, s) ==
  IF IsFinite(r) /\ IsFinite(s) THEN r[1] * s[2] < s[1] * r[2]
  ELSE IF r = <<0, 0>> \/ s = <<0, 0>> THEN FALSE
  ELSE IF IsFinite(s) THEN r[1] < 0
  ELSE IF IsFinite(r) THEN s[1] > 0
  ELSE r[1] < s[1]

GreaterEq(r, s) ==
  IF r = <<0, 0>> \/ s = <<0, 0>> THEN FALSE
  ELSE ~Less(r, s)

\* Math.abs(v) < 1e-10 for a finite v = n/d:  |n| * 10^10 < d.
BelowTolerance(r) == Abs(r[1]) <= ((r[2] - 1) \div EpsRoot) \div EpsRoot

\* Math.floor of a finite number.
MathFloor(r) == r[1] \div r[2]

\* ------------------------------------------------------------ the inputs
Frame == 0..MaxCoord

\* A Point {x, y} is the pair <<x, y>>; a corner list is a function on 0..3.
\* The places a corner is moved to: the frame and the points outside it.
Points == (Frame \X Frame) \cup {<<0 - k, 0 - k>> : k \in 1..Overshoot}

\* The corners of an upright rectangle, in the order top-left, top-right,
\* bottom-right, bottom-left.
Rect(x0, y0, x1, y1) == [c \in 0..3 |->
  CASE c = 0 -> <<x0, y0>>
    [] c = 1 -> <<x1, y0>>
    [] c = 2 -> <<x1, y1>>
    [] c = 3 -> <<x0, y1>>]

\* The upright rectangles of the frame.
Rects ==
  {Rect(r[1], r[2], r[3], r[4]) :
     r \in {q \in Frame \X Frame \X Frame \X Frame : q[1] < q[3] /\ q[2] < q[4]}}

\* The corner lists a call is given: every upright rectangle of the frame;
\* a rectangle with its top-left corner at the origin and one corner moved
\* anywhere; and four corners on the top row, the first k at one place and
\* the others at another (or the same) place.
Quads ==
  Rects
  \cup {[Rect(0, 0, x1, y1) EXCEPT ![c] = p] :
          x1 \in 1..MaxCoord, y1 \in 1..MaxCoord, c \in 0..3, p \in Points}
  \cup {[c \in 0..3 |-> IF c < k THEN <<a, 0>> ELSE <<d, 0>>] :
          k \in 0..3, a \in Frame, d \in Frame}

\* A decoded image: its natural size and the RGBA bytes getImageData returns.
\* "red" is uniformly (255,0,0,255); "grid" gives every pixel its own colour.
Pixel(kind, ix, iy) ==
  IF kind = "red" THEN <<255, 0, 0, 255>>
  ELSE <<10 * ix + 1, 10 * iy + 2, 7, 254>>

ImageData(kind, w, ht) ==
  [idx \in 0..(w * ht * Channels - 1) |->
     Pixel(kind, (idx \div Channels) % w, (idx \div Channels) \div w)[(idx % Channels) + 1]]

Images ==
  {[naturalWidth |-> w, naturalHeight |-> ht, kind |-> "grid"] :
     w \in 1..MaxSrc, ht \in 1..MaxSrc}
  \cup {[naturalWidth |-> MaxSrc, naturalHeight |-> MaxSrc, kind |-> "red"]}

\* ------------------------------------------------------------- the state
VARIABLES
  pc,          \* position inside applyTransform
  src,         \* the four corners passed by the caller
  width,       \* requested output width
  height,      \* requested output height
  A,           \* the 8x8 matrix being eliminated
  b,           \* the right-hand side
  i,           \* outer loop index of solveLinearSystem
  xsol,        \* x of solveLinearSystem
  h,           \* the 9 coefficients returned by getPerspectiveTransform
  srcWidth,    \* img.naturalWidth
  srcHeight,   \* img.naturalHeight
  srcPixels,   \* srcData.data
  dstPixels,   \* dstData.data
  x,           \* column of the warp loop
  y,           \* row of the warp loop
  written,     \* number of assignments made to every dstPixels index
  reads,       \* srcPixels indices read so far
  error,       \* the exception that ended the call, or "none"
  canvas       \* what ctx shows: the putImageData calls made and their data

\* State outside one sequential call: the next column of each row when the
\* rows are warped by separate workers, the outcomes of the calls made before
\* this one, and the raster handed to this call as its image.
VARIABLES rowx, prior, feed

\* The state of the application around the call (the component of part_000).
VARIABLES
  state,        \* the screen: "home", "capture", "crop", "preview" or "batch"
  scanMode,     \* "document", "id_card" or "book"
  currentImage, \* natural size of the image being cropped
  corners,      \* the four crop corners, each <<x, y>>
  rotation,     \* 0, 90, 180 or 270
  draggingIdx,  \* the handle being dragged, -1 for null
  resetPending, \* the timer set by the rotate button has not fired yet
  moves,        \* pointer moves handled so far
  passed,       \* the arguments of the applyTransform call of processCrop
  saved,        \* the stored scan
  editingScanId \* 1 while the stored scan is being edited, 0 for null

appVars == <<state, scanMode, currentImage, corners, rotation, draggingIdx,
             resetPending, moves, passed, saved, editingScanId>>

\* The rest of the component's state: the pages of a session and the library.
VARIABLES
  processedImage, \* size of the rectified image shown in the preview
  isProcessing,   \* the flag that disables the Crop button
  pending,        \* the onload callback processCrop is waiting for
  uploadQueue,    \* the imported images not yet cropped
  batchTotal,     \* the number of files of the last import
  batchImages,    \* the pages saved in this session
  idCardSide,     \* "front", "back" or "none" for null
  idCardFront,    \* the processed front side of an ID card
  cameraAsked,    \* startCamera is waiting for getUserMedia
  scans           \* the records of db.scans, in the order of their ids

flowVars == <<processedImage, isProcessing, pending, uploadQueue, batchTotal,
              batchImages, idCardSide, idCardFront, cameraAsked, scans>>

\* The state of the server (server.ts).
VARIABLES
  credentials,    \* the credentials held by the one oauth2Client
  requests        \* the POST /api/drive/upload requests and their progress

serverVars == <<credentials, requests>>

others == <<rowx, prior, feed, appVars, flowVars, serverVars>>

callVars == <<pc, src, width, height, A, b, i, xsol, h, srcWidth, srcHeight,
              srcPixels, dstPixels, x, y, written, reads, error, canvas,
              rowx, prior, feed>>

vars == <<callVars, appVars, flowVars, serverVars>>

\* ------------------------------------------------ getPerspectiveTransform
\* An output rectangle that ends on the last pixel instead of the far edge.
dstLast(w, ht) == [c \in 0..3 |->
  CASE c = 0 -> <<0, 0>>
    [] c = 1 -> <<w - 1, 0>>
    [] c = 2 -> <<w - 1, ht - 1>>
    [] c = 3 -> <<0, ht - 1>>]

\* dst of applyTransform: the output rectangle.
dst(w, ht) == [c \in 0..3 |->
  CASE c = 0 -> <<0, 0>>
    [] c = 1 -> <<w, 0>>
    [] c = 2 -> <<w, ht>>
    [] c = 3 -> <<0, ht>>]

\* The two 9-element rows pushed for correspondence c (from -> to).
Row9(from, to, r) ==
  LET c  == r \div 2
      sx == from[c][1]
      sy == from[c][2]
      dx == to[c][1]
      dy == to[c][2]
  IN  IF r % 2 = 0
      THEN <<sx, sy, 1, 0, 0, 0, (-dx) * sx, (-dx) * sy, dx>>
      ELSE <<0, 0, 0, sx, sy, 1, (-dy) * sx, (-dy) * sy, dy>>

\* A system built for the forward direction, from the corners to dst.
BuildAForward(from, to) ==
  [r \in 0..(N - 1) |-> [k \in 0..(N - 1) |-> Num(Row9(to, from, r)[k + 1])]]

\* A after b = A.map(row => row.pop()): the first 8 columns.
BuildA(from, to) ==
  [r \in 0..(N - 1) |-> [k \in 0..(N - 1) |-> Num(Row9(from, to, r)[k + 1])]]

\* b: the popped last column.
BuildB(from, to) == [r \in 0..(N - 1) |-> Num(Row9(from, to, r)[N + 1])]

\* ------------------------------------------------------ solveLinearSystem
\* A pivot search that keeps the current row (no partial pivoting).
MaxRowNone(M, col, max, j) == max

\* A pivot search that compares the entries without Math.abs.
RECURSIVE MaxRowSigned(_, _, _, _)
MaxRowSigned(M, col, max, j) ==
  IF j >= N THEN max
  ELSE IF Less(M[max][col], M[j][col])
       THEN MaxRowSigned(M, col, j, j + 1)
       ELSE MaxRowSigned(M, col, max, j + 1)

\* The inner loop that looks for the pivot row: max after scanning j..n-1.
RECURSIVE MaxRow(_, _, _, _)
MaxRow(M, col, max, j) ==
  IF j >= N THEN max
  ELSE IF Less(MathAbs(M[max][col]), MathAbs(M[j][col]))
       THEN MaxRow(M, col, j, j + 1)
       ELSE MaxRow(M, col, max, j + 1)

Swap(f, p, q) == [f EXCEPT ![p] = f[q], ![q] = f[p]]

\* An elimination that never skips a column.
SkipColumnNever(pivot) == FALSE

\* if (Math.abs(pivot) < 1e-10) continue.
SkipColumn(pivot) == BelowTolerance(pivot)

\* One iteration of the elimination loop for column col: <<A, b>> after it.
Eliminate(M, v, col) ==
  LET max   == MaxRow(M, col, col, col + 1)
      Ms    == Swap(M, col, max)
      vs    == Swap(v, col, max)
      pivot == Ms[col][col]
  IN  IF SkipColumn(pivot) THEN <<Ms, vs>>
      ELSE LET factor == [j \in (col + 1)..(N - 1) |-> Div(Ms[j][col], pivot)]
           IN  << [j \in 0..(N - 1) |->
                     IF j > col
                     THEN [k \in 0..(N - 1) |->
                             IF k >= col
                             THEN Sub(Ms[j][k], Mul(factor[j], Ms[col][k]))
                             ELSE Ms[j][k]]
                     ELSE Ms[j]],
                  [j \in 0..(N - 1) |->
                     IF j > col THEN Sub(vs[j], Mul(factor[j], vs[col]))
                     ELSE vs[j]] >>

\* sum of A[row][j] * x[j] for j = from..n-1.
RECURSIVE RowSum(_, _, _, _)
RowSum(M, xs, row, j) ==
  IF j >= N THEN Num(0)
  ELSE Add(Mul(M[row][j], xs[j]), RowSum(M, xs, row, j + 1))

\* A back-substitution step that forgets the unknowns already found.
BackSubstituteNoSum(M, v, xs, row) ==
  IF BelowTolerance(M[row][row]) THEN [xs EXCEPT ![row] = Num(0)]
  ELSE [xs EXCEPT ![row] = Div(v[row], M[row][row])]

\* A back-substitution step that divides whatever the diagonal element is.
BackSubstituteUnguarded(M, v, xs, row) ==
  [xs EXCEPT ![row] = Div(Sub(v[row], RowSum(M, xs, row, row + 1)), M[row][row])]

\* One iteration of the back-substitution loop: x after setting x[row].
BackSubstitute(M, v, xs, row) ==
  LET sum == RowSum(M, xs, row, row + 1)
  IN  IF BelowTolerance(M[row][row]) THEN [xs EXCEPT ![row] = Num(0)]
      ELSE [xs EXCEPT ![row] = Div(Sub(v[row], sum), M[row][row])]

\* ----------------------------------------------------------- the actions
\* The caller's canvas before any putImageData.
Blank == [puts |-> 0, data |-> <<>>]

\* const [corners, setCorners] = useState([...]) and the other useState calls
\* of the component, before any image has been loaded.
NoImage == [naturalWidth |-> 0, naturalHeight |-> 0]

NoCall == [made |-> FALSE, corners |-> <<>>, width |-> 0, height |-> 0]

NoScan == [exists |-> FALSE, corners |-> <<>>, img |-> NoImage]

Point(px, py) == <<Num(px), Num(py)>>

\* No onload callback outstanding.
Idle == [stage |-> "idle", corners |-> <<>>, rotation |-> 0, image |-> NoImage,
         width |-> 0, height |-> 0]

FlowStart ==
  /\ processedImage = NoImage
  /\ isProcessing = FALSE
  /\ pending = Idle
  /\ uploadQueue = <<>>
  /\ batchTotal = 0
  /\ batchImages = <<>>
  /\ idCardSide = "none"
  /\ idCardFront = NoImage
  /\ cameraAsked = FALSE
  /\ scans = <<>>

\* new google.auth.OAuth2(...), before any request.
ServerStart ==
  /\ credentials = "none"
  /\ requests = <<>>

AppStart ==
  /\ FlowStart
  /\ ServerStart
  /\ state = "home"
  /\ currentImage = NoImage
  /\ corners = [c \in 0..3 |->
       CASE c = 0 -> Point(50, 50)
         [] c = 1 -> Point(250, 50)
         [] c = 2 -> Point(250, 350)
         [] c = 3 -> Point(50, 350)]
  /\ rotation = 0
  /\ draggingIdx = -1
  /\ resetPending = FALSE
  /\ moves = 0
  /\ passed = NoCall
  /\ saved = NoScan
  /\ editingScanId = 0

\* No raster handed over: the image is whatever the caller's img decodes to.
NoFeed == [from |-> "none", naturalWidth |-> 0, naturalHeight |-> 0, data |-> <<>>]

NoMatrix == [r \in 0..(N - 1) |-> [k \in 0..(N - 1) |-> Num(0)]]
NoVector == [r \in 0..(N - 1) |-> Num(0)]

Init ==
  /\ pc = "call"
  /\ src \in Quads
  /\ width \in 0..MaxOut
  /\ height \in 0..MaxOut
  /\ A = NoMatrix
  /\ b = NoVector
  /\ i = 0
  /\ xsol = NoVector
  /\ h = <<>>
  /\ srcWidth = 0
  /\ srcHeight = 0
  /\ srcPixels = <<>>
  /\ dstPixels = <<>>
  /\ x = 0
  /\ y = 0
  /\ written = <<>>
  /\ reads = {}
  /\ error = "none"
  /\ canvas = Blank
  /\ rowx = <<>>
  /\ prior = {}
  /\ feed = NoFeed
  /\ scanMode = "document"
  /\ AppStart

\* getPerspectiveTransform(dst, src) up to the call of solveLinearSystem.
BuildSystem ==
  /\ pc = "call"
  /\ A' = BuildA(dst(width, height), src)
  /\ b' = BuildB(dst(width, height), src)
  /\ i' = 0
  /\ pc' = "eliminate"
  /\ UNCHANGED <<src, width, height, xsol, h, srcWidth, srcHeight, srcPixels,
                 dstPixels, x, y, written, reads, error, canvas>>
  /\ UNCHANGED others

\* One iteration of the first loop of solveLinearSystem.
EliminateStep ==
  /\ pc = "eliminate"
  /\ i < N
  /\ LET r == Eliminate(A, b, i) IN A' = r[1] /\ b' = r[2]
  /\ i' = i + 1
  /\ UNCHANGED <<pc, src, width, height, xsol, h, srcWidth, srcHeight,
                 srcPixels, dstPixels, x, y, written, reads, error, canvas>>
  /\ UNCHANGED others

\* const x = new Array(n).fill(0), once the first loop has ended.
StartBackSubstitution ==
  /\ pc = "eliminate"
  /\ i = N
  /\ xsol' = NoVector
  /\ i' = N - 1
  /\ pc' = "substitute"
  /\ UNCHANGED <<src, width, height, A, b, h, srcWidth, srcHeight, srcPixels,
                 dstPixels, x, y, written, reads, error, canvas>>
  /\ UNCHANGED others

\* One iteration of the second loop of solveLinearSystem.
BackSubstituteStep ==
  /\ pc = "substitute"
  /\ i >= 0
  /\ xsol' = BackSubstitute(A, b, xsol, i)
  /\ i' = i - 1
  /\ UNCHANGED <<pc, src, width, height, A, b, h, srcWidth, srcHeight,
                 srcPixels, dstPixels, x, y, written, reads, error, canvas>>
  /\ UNCHANGED others

\* A result that is the 8 unknowns alone, h8 not appended.
HomographyBare(xs) == xs

\* [...h, 1]: the 8 unknowns followed by h8.
Homography(xs) == [k \in 0..N |-> IF k < N THEN xs[k] ELSE Num(1)]

\* return x; return [...h, 1].
getPerspectiveTransform ==
  /\ pc = "substitute"
  /\ i < 0
  /\ h' = Homography(xsol)
  /\ pc' = "source"
  /\ UNCHANGED <<src, width, height, A, b, i, xsol, srcWidth, srcHeight,
                 srcPixels, dstPixels, x, y, written, reads, error, canvas>>
  /\ UNCHANGED others

\* ---------------------------------------------------------- applyTransform
\* Size tests that miss a lone zero dimension, or a zero height.
ZeroSizedBoth(w, ht) == w = 0 /\ ht = 0

ZeroSizedWidth(w, ht) == w = 0

\* createImageData(width, height) throws IndexSizeError when either
\* argument is 0 (the 2D context's documented behaviour).
ZeroSized(w, ht) == w = 0 \/ ht = 0

\* z, and the numerators of sx and sy, of destination pixel (px, py).
HomZ(hh, px, py) ==
  Add(Add(Mul(hh[6], Num(px)), Mul(hh[7], Num(py))), hh[8])

HomX(hh, px, py) ==
  Add(Add(Mul(hh[0], Num(px)), Mul(hh[1], Num(py))), hh[2])

HomY(hh, px, py) ==
  Add(Add(Mul(hh[3], Num(px)), Mul(hh[4], Num(py))), hh[5])

SourceX(hh, px, py) == Div(HomX(hh, px, py), HomZ(hh, px, py))

SourceY(hh, px, py) == Div(HomY(hh, px, py), HomZ(hh, px, py))

\* const dstIdx = (y * width + x) * 4.
DstIdx(px, py, w) == (py * w + px) * Channels

\* A bounds test that lets the right and bottom edges through.
InBoundsInclusive(sx, sy, sw, sh) ==
  /\ GreaterEq(sx, Num(0))
  /\ ~Less(Num(sw), sx)
  /\ GreaterEq(sy, Num(0))
  /\ ~Less(Num(sh), sy)

\* A bounds test that excludes the first column and the first row.
InBoundsStrict(sx, sy, sw, sh) ==
  /\ Less(Num(0), sx)
  /\ Less(sx, Num(sw))
  /\ Less(Num(0), sy)
  /\ Less(sy, Num(sh))

\* A bounds test that forgets the lower bounds.
InBoundsNoLower(sx, sy, sw, sh) ==
  /\ Less(sx, Num(sw))
  /\ Less(sy, Num(sh))

\* sx >= 0 && sx < srcWidth && sy >= 0 && sy < srcHeight.
InBounds(sx, sy, sw, sh) ==
  /\ GreaterEq(sx, Num(0))
  /\ Less(sx, Num(sw))
  /\ GreaterEq(sy, Num(0))
  /\ Less(sy, Num(sh))

\* A source index that rounds to the nearest pixel instead of flooring.
SrcIdxRound(sx, sy, sw) ==
  (MathFloor(Add(sy, <<1, 2>>)) * sw + MathFloor(Add(sx, <<1, 2>>))) * Channels

\* const srcIdx = (iy * srcWidth + ix) * 4 with ix, iy the floors.
SrcIdx(sx, sy, sw) == (MathFloor(sy) * sw + MathFloor(sx)) * Channels

\* srcPixels[k]: undefined outside the buffer, stored as 0 in a clamped array.
ReadSrc(pixels, k) == IF k \in DOMAIN pixels THEN pixels[k] ELSE 0

\* dstPixels[k] = v: a store outside the buffer is ignored.
Store(pixels, k, v) == IF k \in DOMAIN pixels THEN [pixels EXCEPT ![k] = v] ELSE pixels

Store4(pixels, k, v) ==
  Store(Store(Store(Store(pixels, k, v[1]), k + 1, v[2]), k + 2, v[3]), k + 3, v[4])

\* A destination buffer that is a view of the source buffer: a store into
\* one is seen in the other.
SourceAliased(spx, k, v) ==
  [j \in DOMAIN spx |-> IF j \in k..(k + 3) THEN v[j - k + 1] ELSE spx[j]]

\* srcData after a store of v at dstData[k..k+3]: srcData belongs to the
\* scratch canvas and dstData to createImageData, two separate buffers.
SourceAfterStore(spx, k, v) == spx

\* A loop body that stores the complement of every byte it copies.
PixelValueNegative(hh, spx, sw, sh, px, py) ==
  LET sx     == SourceX(hh, px, py)
      sy     == SourceY(hh, px, py)
      srcIdx == SrcIdx(sx, sy, sw)
  IN  IF InBounds(sx, sy, sw, sh)
      THEN <<255 - ReadSrc(spx, srcIdx), 255 - ReadSrc(spx, srcIdx + 1),
             255 - ReadSrc(spx, srcIdx + 2), 255 - ReadSrc(spx, srcIdx + 3)>>
      ELSE <<Fill, Fill, Fill, Fill>>

\* The four bytes one iteration stores at dstIdx.
PixelValue(hh, spx, sw, sh, px, py) ==
  LET sx     == SourceX(hh, px, py)
      sy     == SourceY(hh, px, py)
      srcIdx == SrcIdx(sx, sy, sw)
  IN  IF InBounds(sx, sy, sw, sh)
      THEN <<ReadSrc(spx, srcIdx), ReadSrc(spx, srcIdx + 1),
             ReadSrc(spx, srcIdx + 2), ReadSrc(spx, srcIdx + 3)>>
      ELSE <<Fill, Fill, Fill, Fill>>

\* A loop body whose fill is carried over from the pixel stored just before
\* this one in the buffer (white when there is none).
StorePixelCarried(dpx, hh, spx, sw, sh, w, px, py) ==
  LET k == DstIdx(px, py, w)
  IN  IF InBounds(SourceX(hh, px, py), SourceY(hh, px, py), sw, sh)
      THEN Store4(dpx, k, PixelValue(hh, spx, sw, sh, px, py))
      ELSE Store4(dpx, k, IF k = 0 THEN <<Fill, Fill, Fill, Fill>>
                          ELSE <<dpx[k - 4], dpx[k - 3], dpx[k - 2], dpx[k - 1]>>)

\* dstData after the loop body has run for pixel (px, py).
StorePixel(dpx, hh, spx, sw, sh, w, px, py) ==
  Store4(dpx, DstIdx(px, py, w), PixelValue(hh, spx, sw, sh, px, py))

\* dstData after the two nested loops have run from pixel number n on, in
\* row-major order (n = y * width + x).
RECURSIVE WarpFrom(_, _, _, _, _, _, _, _)
WarpFrom(dpx, hh, spx, sw, sh, w, ht, n) ==
  IF n >= w * ht THEN dpx
  ELSE LET r == StorePixel(dpx, hh, spx, sw, sh, w, n % w, n \div w)
       IN  IF r = r THEN WarpFrom(r, hh, spx, sw, sh, w, ht, n + 1) ELSE dpx

\* A row loop that stops one row early.
RowsLeftShort(py, ht) == py < ht - 1

\* The loop test of the row loop.
RowsLeft(py, ht) == py < ht

\* srcCanvas, drawImage and getImageData: the decoded source raster.
GetImageData ==
  /\ pc = "source"
  /\ IF feed = NoFeed
     THEN \E img \in Images :
            /\ srcWidth' = img.naturalWidth
            /\ srcHeight' = img.naturalHeight
            /\ srcPixels' = ImageData(img.kind, img.naturalWidth, img.naturalHeight)
     ELSE /\ srcWidth' = feed.naturalWidth
          /\ srcHeight' = feed.naturalHeight
          /\ srcPixels' = feed.data
  /\ pc' = "allocate"
  /\ UNCHANGED <<src, width, height, A, b, i, xsol, h, dstPixels, x, y,
                 written, reads, error, canvas>>
  /\ UNCHANGED others

\* ctx.createImageData(width, height): zero-filled, or IndexSizeError.
CreateImageData ==
  /\ pc = "allocate"
  /\ IF ZeroSized(width, height)
     THEN /\ error' = "IndexSizeError"
          /\ pc' = "thrown"
          /\ UNCHANGED <<dstPixels, written>>
     ELSE /\ dstPixels' = [k \in 0..(width * height * Channels - 1) |-> 0]
          /\ written' = [k \in 0..(width * height * Channels - 1) |-> 0]
          /\ pc' = "warp"
          /\ UNCHANGED error
  /\ x' = 0
  /\ y' = 0
  /\ UNCHANGED <<src, width, height, A, b, i, xsol, h, srcWidth, srcHeight,
                 srcPixels, reads, canvas>>
  /\ UNCHANGED others

\* One iteration of the inner loop: destination pixel (x, y).
WarpPixel ==
  /\ pc = "warp"
  /\ RowsLeft(y, height)
  /\ LET sx     == SourceX(h, x, y)
         sy     == SourceY(h, x, y)
         dstIdx == DstIdx(x, y, width)
         srcIdx == SrcIdx(sx, sy, srcWidth)
         value  == PixelValue(h, srcPixels, srcWidth, srcHeight, x, y)
     IN  /\ dstPixels' = StorePixel(dstPixels, h, srcPixels, srcWidth, srcHeight,
                                    width, x, y)
         /\ srcPixels' = SourceAfterStore(srcPixels, dstIdx, value)
         /\ reads' = IF InBounds(sx, sy, srcWidth, srcHeight)
                     THEN reads \cup {srcIdx, srcIdx + 1, srcIdx + 2, srcIdx + 3}
                     ELSE reads
         /\ written' = [k \in DOMAIN written |->
                         IF k \in dstIdx..(dstIdx + 3) THEN written[k] + 1
                         ELSE written[k]]
  /\ IF x + 1 < width
     THEN x' = x + 1 /\ y' = y
     ELSE x' = 0 /\ y' = y + 1
  /\ UNCHANGED <<pc, src, width, height, A, b, i, xsol, h, srcWidth,
                 srcHeight, error, canvas>>
  /\ UNCHANGED others

\* ctx.putImageData(dstData, 0, 0), once both loops have ended.
PutImageData ==
  /\ pc = "warp"
  /\ ~RowsLeft(y, height)
  /\ canvas' = [puts |-> canvas.puts + 1, data |-> dstPixels]
  /\ pc' = "done"
  /\ UNCHANGED <<src, width, height, A, b, i, xsol, h, srcWidth, srcHeight,
                 srcPixels, dstPixels, x, y, written, reads, error>>
  /\ UNCHANGED others

Next ==
  \/ GetImageData
  \/ CreateImageData
  \/ WarpPixel
  \/ PutImageData
  \/ BuildSystem
  \/ EliminateStep
  \/ StartBackSubstitution
  \/ BackSubstituteStep
  \/ getPerspectiveTransform

Spec == Init /\ [][Next]_vars

\* ------------------------------------------------ one call after another
\* applyTransform called again and again. Every local of a finished call is
\* left as it was: in the new call each is set by its own declaration.
CallQuads ==
  {Rect(0, 0, MaxOut, MaxOut),
   [Rect(0, 0, MaxOut, MaxOut) EXCEPT ![2] = <<1, 1>>],
   [c \in 0..3 |-> <<0, 0>>]}

CallDims == {0, MaxOut}

CallImages ==
  {[from |-> "caller", naturalWidth |-> MaxOut, naturalHeight |-> MaxOut,
    data |-> ImageData(kind, MaxOut, MaxOut)] : kind \in {"grid", "red"}}

\* An exception of the call before that is still pending in the new call.
ErrorCarried(previous) == previous

\* The exception state at the entry of a call: the module keeps none.
ErrorAtEntry(previous) == "none"

InitCalls ==
  /\ pc = "call"
  /\ src \in CallQuads
  /\ width \in CallDims
  /\ height \in CallDims
  /\ feed \in CallImages
  /\ A = NoMatrix
  /\ b = NoVector
  /\ i = 0
  /\ xsol = NoVector
  /\ h = <<>>
  /\ srcWidth = 0
  /\ srcHeight = 0
  /\ srcPixels = <<>>
  /\ dstPixels = <<>>
  /\ x = 0
  /\ y = 0
  /\ written = <<>>
  /\ reads = {}
  /\ error = "none"
  /\ canvas = Blank
  /\ rowx = <<>>
  /\ prior = {}
  /\ scanMode = "document"
  /\ AppStart

\* The caller makes another call, with a canvas of its own, once the call
\* before has returned or thrown.
NextCall ==
  /\ pc \in {"done", "thrown"}
  /\ pc' = "call"
  /\ src' \in CallQuads
  /\ width' \in CallDims
  /\ height' \in CallDims
  /\ feed' \in CallImages
  /\ canvas' = Blank
  /\ error' = ErrorAtEntry(error)
  /\ reads' = {}
  /\ prior' = prior \cup {pc}
  /\ UNCHANGED <<A, b, i, xsol, h, srcWidth, srcHeight, srcPixels, dstPixels,
                 x, y, written, rowx>>
  /\ UNCHANGED <<appVars, flowVars, serverVars>>

\* The raster a call with the no-op quadrilateral has put on its canvas is
\* handed to another call with the same quadrilateral and size.
FeedBack ==
  /\ pc = "done"
  /\ src = dst(width, height)
  /\ srcWidth = width
  /\ srcHeight = height
  /\ pc' = "call"
  /\ feed' = [from |-> "output", naturalWidth |-> width, naturalHeight |-> height,
              data |-> canvas.data]
  /\ canvas' = Blank
  /\ error' = ErrorAtEntry(error)
  /\ reads' = {}
  /\ prior' = prior \cup {pc}
  /\ UNCHANGED <<src, width, height, A, b, i, xsol, h, srcWidth, srcHeight,
                 srcPixels, dstPixels, x, y, written, rowx>>
  /\ UNCHANGED <<appVars, flowVars, serverVars>>

NextCalls ==
  \/ BuildSystem
  \/ EliminateStep
  \/ StartBackSubstitution
  \/ BackSubstituteStep
  \/ getPerspectiveTransform
  \/ GetImageData
  \/ CreateImageData
  \/ WarpPixel
  \/ PutImageData
  \/ NextCall
  \/ FeedBack

SpecCalls == InitCalls /\ [][NextCalls]_vars

\* solveLinearSystem(A, b) from its first loop on, and from its second. Each
\* intermediate value is compared with itself so that it is computed once,
\* before the next iteration uses it.
RECURSIVE EliminateFrom(_, _, _)
EliminateFrom(M, v, col) ==
  IF col >= N THEN <<M, v>>
  ELSE LET r == Eliminate(M, v, col)
       IN  IF r = r THEN EliminateFrom(r[1], r[2], col + 1) ELSE <<M, v>>

RECURSIVE BackSubstituteFrom(_, _, _, _)
BackSubstituteFrom(M, v, xs, row) ==
  IF row < 0 THEN xs
  ELSE LET r == BackSubstitute(M, v, xs, row)
       IN  IF r = r THEN BackSubstituteFrom(M, v, r, row - 1) ELSE xs

solveLinearSystem(M, v) ==
  LET r == EliminateFrom(M, v, 0)
  IN  BackSubstituteFrom(r[1], r[2], NoVector, N - 1)

\* The raster one call of applyTransform puts on a canvas, as a function of
\* its arguments.
applyTransform(q, w, ht, spx, sw, sh) ==
  LET hh == Homography(solveLinearSystem(BuildA(dst(w, ht), q), BuildB(dst(w, ht), q)))
  IN  IF hh # hh THEN <<>> ELSE
      WarpFrom([k \in 0..(w * ht * Channels - 1) |-> 0], hh, spx, sw, sh, w, ht, 0)

\* ------------------------------------------- the warp with its rows apart
\* The loop body of applyTransform run with every row as a unit of work of
\* its own: row r stores its pixels from left to right, and the rows are
\* interleaved in any way. Every interleaving of workers that own disjoint
\* ranges of rows, and every order of the rows, is one of these behaviours.
WorkerQuads ==
  {[Rect(0, 0, MaxCoord, MaxCoord) EXCEPT ![2] = p] : p \in Points}

InitWorkers ==
  /\ pc = "call"
  /\ src \in WorkerQuads
  /\ width \in 0..MaxOut
  /\ height \in 0..MaxOut
  /\ A = NoMatrix
  /\ b = NoVector
  /\ i = 0
  /\ xsol = NoVector
  /\ h = <<>>
  /\ srcWidth = 0
  /\ srcHeight = 0
  /\ srcPixels = <<>>
  /\ dstPixels = <<>>
  /\ x = 0
  /\ y = 0
  /\ written = <<>>
  /\ reads = {}
  /\ error = "none"
  /\ canvas = Blank
  /\ rowx = [r \in 0..(height - 1) |-> 0]
  /\ prior = {}
  /\ feed = NoFeed
  /\ scanMode = "document"
  /\ AppStart

\* One iteration of the inner loop, for the next pixel of row r.
WorkerPixel(r) ==
  /\ pc = "warp"
  /\ RowsLeft(r, height)
  /\ rowx[r] < width
  /\ LET dstIdx == DstIdx(rowx[r], r, width)
         value  == PixelValue(h, srcPixels, srcWidth, srcHeight, rowx[r], r)
     IN  /\ dstPixels' = StorePixel(dstPixels, h, srcPixels, srcWidth, srcHeight,
                                    width, rowx[r], r)
         /\ srcPixels' = SourceAfterStore(srcPixels, dstIdx, value)
         /\ written' = [k \in DOMAIN written |->
                         IF k \in dstIdx..(dstIdx + 3) THEN written[k] + 1
                         ELSE written[k]]
  /\ rowx' = [rowx EXCEPT ![r] = rowx[r] + 1]
  /\ UNCHANGED <<pc, src, width, height, A, b, i, xsol, h, srcWidth,
                 srcHeight, x, y, reads, error, canvas, prior, feed>>
  /\ UNCHANGED <<appVars, flowVars, serverVars>>

\* ctx.putImageData(dstData, 0, 0), once every row has ended.
PutImageDataJoined ==
  /\ pc = "warp"
  /\ \A r \in DOMAIN rowx : ~(rowx[r] < width)
  /\ canvas' = [puts |-> canvas.puts + 1, data |-> dstPixels]
  /\ pc' = "done"
  /\ UNCHANGED <<src, width, height, A, b, i, xsol, h, srcWidth, srcHeight,
                 srcPixels, dstPixels, x, y, written, reads, error>>
  /\ UNCHANGED others

NextWorkers ==
  \/ BuildSystem
  \/ EliminateStep
  \/ StartBackSubstitution
  \/ BackSubstituteStep
  \/ getPerspectiveTransform
  \/ GetImageData
  \/ CreateImageData
  \/ \E r \in DOMAIN rowx : WorkerPixel(r)
  \/ PutImageDataJoined

SpecWorkers == InitWorkers /\ [][NextWorkers]_vars

\* --------------------------------------------- the application (part_000)
MathMin(r, s) ==
  IF r = <<0, 0>> \/ s = <<0, 0>> THEN <<0, 0>>
  ELSE IF Less(s, r) THEN s ELSE r

MathMax(r, s) ==
  IF r = <<0, 0>> \/ s = <<0, 0>> THEN <<0, 0>>
  ELSE IF Less(r, s) THEN s ELSE r

\* Math.round of a finite number.
MathRound(r) == MathFloor(Add(r, <<1, 2>>))

\* The largest k in lo..hi with k * k <= n.
RECURSIVE ISqrtBetween(_, _, _)
ISqrtBetween(n, lo, hi) ==
  IF lo >= hi THEN lo
  ELSE LET mid == (lo + hi + 1) \div 2
       IN  IF mid * mid <= n THEN ISqrtBetween(n, mid, hi)
           ELSE ISqrtBetween(n, lo, mid - 1)

\* Math.sqrt of an integer >= 0, rounded down.
MathSqrt(n) == ISqrtBetween(n, 0, 46340)

\* w * 0.02, w * 0.05, ... : w times a number of hundredths.
Times(w, hundredths) == Mul(w, Norm(hundredths, 100))

\* The corner list [(l,t), (r,t), (r,b), (l,b)] at the given hundredths.
Inset(w, ht, left, top) ==
  [c \in 0..3 |->
     <<Times(w, IF c \in {0, 3} THEN left ELSE 100 - left),
       Times(ht, IF c \in {0, 1} THEN top ELSE 100 - top)>>]

setInitialCorners(im, mode) ==
  LET w  == Num(im.naturalWidth)
      ht == Num(im.naturalHeight)
  IN  IF mode = "id_card" THEN Inset(w, ht, 20, 30)
      ELSE IF mode = "book" THEN Inset(w, ht, 5, 5)
      ELSE Inset(w, ht, 2, 2)

\* A clamp that has lost its Math.max(0, ...).
ClampUpperOnly(hi, v) == MathMin(hi, v)

\* Math.max(0, Math.min(hi, v)).
Clamp(hi, v) == MathMax(Num(0), MathMin(hi, v))

\* newCorners of handleMouseMove and handleTouchMove: the pointer is at
\* (offX, offY) from the top-left of the image's bounding rectangle, which
\* is rectW wide and rectH high.
DragTo(cs, idx, im, rectW, rectH, offX, offY) ==
  LET scaleX == Div(Num(im.naturalWidth), rectW)
      scaleY == Div(Num(im.naturalHeight), rectH)
      px     == Mul(offX, scaleX)
      py     == Mul(offY, scaleY)
  IN  [cs EXCEPT ![idx] = <<Clamp(Num(im.naturalWidth), px),
                           Clamp(Num(im.naturalHeight), py)>>]

\* Math.sqrt(Math.pow(q.x - p.x, 2) + Math.pow(q.y - p.y, 2)), to
\* 1/SqrtScale: the two differences are taken in units of 1/SqrtScale
\* (rounded down) and so is the root. The root of a single square is taken
\* without squaring, which keeps long edges within the integers.
EdgeLength(p, q) ==
  LET dx == MathFloor(Mul(MathAbs(Sub(q[1], p[1])), Num(SqrtScale)))
      dy == MathFloor(Mul(MathAbs(Sub(q[2], p[2])), Num(SqrtScale)))
  IN  Norm(IF dy = 0 THEN dx
           ELSE IF dx = 0 THEN dy
           ELSE MathSqrt(dx * dx + dy * dy), SqrtScale)

avgWidth(cs) ==
  Div(Add(EdgeLength(cs[0], cs[1]), EdgeLength(cs[3], cs[2])), Num(2))

avgHeight(cs) ==
  Div(Add(EdgeLength(cs[0], cs[3]), EdgeLength(cs[1], cs[2])), Num(2))

\* A size test that looks at the width alone.
TooSmallWidthOnly(aw, ah) == Less(aw, Num(MinSize))

\* avgWidth < 10 || avgHeight < 10.
TooSmall(aw, ah) == Less(aw, Num(MinSize)) \/ Less(ah, Num(MinSize))

\* A comparison turned round.
TallerThanWide(aw, ah) == Less(aw, ah)

\* avgWidth > avgHeight.
WiderThanTall(aw, ah) == Less(ah, aw)

\* <<targetWidth, targetHeight>>.
TargetSize(aw, ah) ==
  IF WiderThanTall(aw, ah)
  THEN <<maxDim, MathRound(Mul(Div(ah, aw), Num(maxDim)))>>
  ELSE <<MathRound(Mul(Div(aw, ah), Num(maxDim))), maxDim>>

\* The images the user loads (one in a run: once a scan is stored the run
\* goes on with that scan), the sizes the layout gives the image element
\* (natural size divided by 1 or 2), the pointer positions of a move (in
\* halves of the bounding rectangle, from its top-left corner) and the
\* answers of the corner detection, here two that are in the order asked
\* for: a document inside the image and one of a single pixel.
AppImages ==
  {[naturalWidth |-> 100, naturalHeight |-> 200],
   [naturalWidth |-> 200, naturalHeight |-> 100]}

Shrinks == {1, 2}

Pointers == {<<0 - 1, 3>>, <<1, 1>>}

Detected(im) ==
  {Inset(Num(im.naturalWidth), Num(im.naturalHeight), 10, 20),
   [c \in 0..3 |-> Point(IF c \in {1, 2} THEN 1 ELSE 0,
                         IF c \in {2, 3} THEN 1 ELSE 0)]}

InitApp ==
  /\ pc = "call"
  /\ src = Rect(0, 0, 1, 1)
  /\ width = 0
  /\ height = 0
  /\ A = NoMatrix
  /\ b = NoVector
  /\ i = 0
  /\ xsol = NoVector
  /\ h = <<>>
  /\ srcWidth = 0
  /\ srcHeight = 0
  /\ srcPixels = <<>>
  /\ dstPixels = <<>>
  /\ x = 0
  /\ y = 0
  /\ written = <<>>
  /\ reads = {}
  /\ error = "none"
  /\ canvas = Blank
  /\ rowx = <<>>
  /\ prior = {}
  /\ feed = NoFeed
  /\ scanMode \in {"document", "id_card", "book"}
  /\ AppStart

\* handleFileUpload with one file, up to and including img.onload
\* (captureImage does the same to the corners, from a camera frame).
handleFileUpload ==
  /\ state = "home"
  /\ ~saved.exists
  /\ \E im \in AppImages :
       /\ currentImage' = im
       /\ corners' = setInitialCorners(im, scanMode)
  /\ rotation' = 0
  /\ state' = "crop"
  /\ passed' = NoCall
  /\ UNCHANGED <<scanMode, draggingIdx, resetPending, moves, saved, editingScanId>>
  /\ UNCHANGED <<callVars, flowVars, serverVars>>

\* onMouseDown and onTouchStart of handle idx.
StartDrag(idx) ==
  /\ state = "crop"
  /\ moves < MaxMoves
  /\ draggingIdx' = idx
  /\ UNCHANGED <<state, scanMode, currentImage, corners, rotation, resetPending,
                 moves, passed, saved, editingScanId>>
  /\ UNCHANGED <<callVars, flowVars, serverVars>>

\* handleMouseMove, and handleTouchMove, which has the same body with
\* e.touches[0] in place of e.
handleMouseMove ==
  /\ draggingIdx # -1
  /\ moves < MaxMoves
  /\ \E shrink \in Shrinks, e \in Pointers :
       LET rectW == Div(Num(currentImage.naturalWidth), Num(shrink))
           rectH == Div(Num(currentImage.naturalHeight), Num(shrink))
       IN  corners' = DragTo(corners, draggingIdx, currentImage, rectW, rectH,
                             Mul(Norm(e[1], 2), rectW), Mul(Norm(e[2], 2), rectH))
  /\ moves' = moves + 1
  /\ UNCHANGED <<state, scanMode, currentImage, rotation, draggingIdx,
                 resetPending, passed, saved, editingScanId>>
  /\ UNCHANGED <<callVars, flowVars, serverVars>>

\* handleMouseUp, for mouseup and touchend.
handleMouseUp ==
  /\ draggingIdx # -1
  /\ draggingIdx' = -1
  /\ UNCHANGED <<state, scanMode, currentImage, corners, rotation, resetPending,
                 moves, passed, saved, editingScanId>>
  /\ UNCHANGED <<callVars, flowVars, serverVars>>

\* The rotate button: the rotation changes now, the corners 100 ms later.
Rotate ==
  /\ state = "crop"
  /\ rotation < 90 * MaxTurns
  /\ rotation' = (rotation + 90) % 360
  /\ resetPending' = TRUE
  /\ UNCHANGED <<state, scanMode, currentImage, corners, draggingIdx, moves,
                 passed, saved, editingScanId>>
  /\ UNCHANGED <<callVars, flowVars, serverVars>>

\* The callback of that setTimeout: setInitialCorners(img).
RotateTimer ==
  /\ resetPending
  /\ resetPending' = FALSE
  /\ corners' = setInitialCorners(currentImage, scanMode)
  /\ UNCHANGED <<state, scanMode, currentImage, rotation, draggingIdx, moves,
                 passed, saved, editingScanId>>
  /\ UNCHANGED <<callVars, flowVars, serverVars>>

\* autoDetectCorners with an answer that is an array of length 4.
autoDetectCorners ==
  /\ state = "crop"
  /\ corners' \in Detected(currentImage)
  /\ UNCHANGED <<state, scanMode, currentImage, rotation, draggingIdx,
                 resetPending, moves, passed, saved, editingScanId>>
  /\ UNCHANGED <<callVars, flowVars, serverVars>>

\* The reset button: fractions of the displayed size of the image element.
Reset ==
  /\ state = "crop"
  /\ \E shrink \in Shrinks :
       corners' = Inset(Div(Num(currentImage.naturalWidth), Num(shrink)),
                        Div(Num(currentImage.naturalHeight), Num(shrink)), 5, 5)
  /\ UNCHANGED <<state, scanMode, currentImage, rotation, draggingIdx,
                 resetPending, moves, passed, saved, editingScanId>>
  /\ UNCHANGED <<callVars, flowVars, serverVars>>

\* processCrop, up to and including the onload callbacks: either the alert,
\* or one call applyTransform(ctx, img or rotatedImg, corners, targetWidth,
\* targetHeight) and the preview, which unmounts CropHandles and with it
\* draggingIdx.
processCrop ==
  /\ state = "crop"
  /\ LET aw == avgWidth(corners)
         ah == avgHeight(corners)
     IN  IF TooSmall(aw, ah)
         THEN UNCHANGED <<state, passed, draggingIdx>>
         ELSE /\ passed' = [made |-> TRUE, corners |-> corners,
                            width |-> TargetSize(aw, ah)[1],
                            height |-> TargetSize(aw, ah)[2]]
              /\ state' = "preview"
              /\ draggingIdx' = -1
  /\ UNCHANGED <<scanMode, currentImage, corners, rotation, resetPending,
                 moves, saved, editingScanId>>
  /\ UNCHANGED <<callVars, flowVars, serverVars>>

\* saveScan followed by finishBatch for a batch of one page: an edited scan
\* gets the new corners and keeps its original image, a new scan is stored
\* with the processed image as its original image and the corners of that
\* moment.
saveScan ==
  /\ state = "preview"
  /\ saved' = [exists |-> TRUE, corners |-> corners,
               img |-> IF editingScanId # 0 THEN currentImage
                       ELSE [naturalWidth |-> passed.width,
                             naturalHeight |-> passed.height]]
  /\ editingScanId' = 0
  /\ currentImage' = NoImage
  /\ state' = "home"
  /\ UNCHANGED <<scanMode, corners, rotation, draggingIdx, resetPending, moves,
                 passed>>
  /\ UNCHANGED <<callVars, flowVars, serverVars>>

\* editScan. The scan is in the editor from here on: nothing reads the
\* stored copy before saveScan writes it back, so it is not kept.
editScan ==
  /\ state = "home"
  /\ saved.exists
  /\ editingScanId' = 1
  /\ currentImage' = saved.img
  /\ corners' = saved.corners
  /\ rotation' = 0
  /\ state' = "crop"
  /\ passed' = NoCall
  /\ saved' = NoScan
  /\ UNCHANGED <<scanMode, draggingIdx, resetPending, moves>>
  /\ UNCHANGED <<callVars, flowVars, serverVars>>

NextApp ==
  \/ handleFileUpload
  \/ \E idx \in 0..3 : StartDrag(idx)
  \/ handleMouseMove
  \/ handleMouseUp
  \/ Rotate
  \/ RotateTimer
  \/ autoDetectCorners
  \/ Reset
  \/ processCrop
  \/ saveScan
  \/ editScan

SpecApp == InitApp /\ [][NextApp]_vars

\* ------------------------------------- the screens and the batch (part_000)
\* The files of an import, told apart by their sizes, the frame the camera
\* gives, and two answers of the corner detection that lie outside any
\* image: a strip 60000 wide and 10 high and one 100 wide and 1 high.
Page(k) == [naturalWidth |-> 100 * k, naturalHeight |-> 200]

FileLists == {[k \in 1..n |-> Page(k)] : n \in 1..MaxFiles}

Snapshot == [naturalWidth |-> 640, naturalHeight |-> 480]

Strip(w, ht) == [c \in 0..3 |-> Point(IF c \in {1, 2} THEN w ELSE 0,
                                      IF c \in {2, 3} THEN ht ELSE 0)]

Strips == {Strip(60000, 10), Strip(100, 1)}

\* Array.from(e.target.files || []).slice(0, 100).
KeptFiles(files) ==
  SubSeq(files, 1, IF Len(files) < MaxUpload THEN Len(files) ELSE MaxUpload)

\* if (dataUrls.length > 1) setUploadQueue(dataUrls.slice(1)).
QueueAfterUpload(queue, dataUrls) ==
  IF Len(dataUrls) > 1 THEN Tail(dataUrls) ELSE queue

\* A swap that forgets to put the current image back.
SwapQueueDropped(queue, cur, k) ==
  SubSeq(queue, 1, k - 1) \o SubSeq(queue, k + 1, Len(queue))

\* newQueue of the carousels: queue entry k (counted from 1) is taken out
\* and the current image is put at the front.
SwapQueue(queue, cur, k) ==
  <<cur>> \o SubSeq(queue, 1, k - 1) \o SubSeq(queue, k + 1, Len(queue))

\* The canvas of the two sides of an ID card.
Combined(front, back) ==
  [naturalWidth  |-> IF front.naturalWidth < back.naturalWidth
                     THEN back.naturalWidth ELSE front.naturalWidth,
   naturalHeight |-> front.naturalHeight + back.naturalHeight + Gap]

\* if (scanMode === 'id_card') setIdCardSide('front') else setIdCardSide(null).
SideAtCameraStart(mode) == IF mode = "id_card" THEN "front" ELSE "none"

\* The screens are rendered only with their image.
CropShown == state = "crop" /\ currentImage # NoImage

PreviewShown == state = "preview" /\ processedImage # NoImage

BatchShown == state = "batch" /\ Len(batchImages) > 0

dragVars == <<draggingIdx, resetPending, moves, saved>>

InitMode(modes) ==
  /\ pc = "call"
  /\ src = Rect(0, 0, 1, 1)
  /\ width = 0
  /\ height = 0
  /\ A = NoMatrix
  /\ b = NoVector
  /\ i = 0
  /\ xsol = NoVector
  /\ h = <<>>
  /\ srcWidth = 0
  /\ srcHeight = 0
  /\ srcPixels = <<>>
  /\ dstPixels = <<>>
  /\ x = 0
  /\ y = 0
  /\ written = <<>>
  /\ reads = {}
  /\ error = "none"
  /\ canvas = Blank
  /\ rowx = <<>>
  /\ prior = {}
  /\ feed = NoFeed
  /\ scanMode \in modes
  /\ AppStart

\* startCamera, up to its await (the home button).
startCamera ==
  /\ state = "home"
  /\ ~cameraAsked
  /\ cameraAsked' = TRUE
  /\ UNCHANGED <<appVars, processedImage, isProcessing, pending, uploadQueue,
                 batchTotal, batchImages, idCardSide, idCardFront, scans>>
  /\ UNCHANGED <<callVars, serverVars>>

\* The rest of startCamera: the stream is granted, or the catch block.
getUserMedia(granted) ==
  /\ cameraAsked
  /\ cameraAsked' = FALSE
  /\ IF granted
     THEN /\ state' = "capture"
          /\ idCardSide' = SideAtCameraStart(scanMode)
     ELSE UNCHANGED <<state, idCardSide>>
  /\ UNCHANGED <<scanMode, currentImage, corners, rotation, passed,
                 editingScanId, dragVars>>
  /\ UNCHANGED <<processedImage, isProcessing, pending, uploadQueue,
                 batchTotal, batchImages, idCardFront, scans>>
  /\ UNCHANGED <<callVars, serverVars>>

\* The close button of the capture screen: stopCamera(); setState('home').
CloseCamera ==
  /\ state = "capture"
  /\ state' = "home"
  /\ UNCHANGED <<scanMode, currentImage, corners, rotation, passed,
                 editingScanId, dragVars>>
  /\ UNCHANGED <<flowVars, callVars, serverVars>>

\* captureImage, up to and including tempImg.onload.
captureImage ==
  /\ state = "capture"
  /\ currentImage' = Snapshot
  /\ corners' = setInitialCorners(Snapshot, scanMode)
  /\ state' = "crop"
  /\ UNCHANGED <<scanMode, rotation, passed, editingScanId, dragVars>>
  /\ UNCHANGED <<flowVars, callVars, serverVars>>

\* handleFileUpload for any number of files, up to and including img.onload.
\* The file input is opened from the home and the capture screen.
handleFileUploadOf(files) ==
  /\ state \in {"home", "capture"}
  /\ Len(KeptFiles(files)) # 0
  /\ LET dataUrls == KeptFiles(files)
     IN  /\ batchTotal' = Len(dataUrls)
         /\ uploadQueue' = QueueAfterUpload(uploadQueue, dataUrls)
         /\ currentImage' = dataUrls[1]
         /\ corners' = setInitialCorners(dataUrls[1], scanMode)
  /\ rotation' = 0
  /\ state' = "crop"
  /\ UNCHANGED <<scanMode, passed, editingScanId, dragVars>>
  /\ UNCHANGED <<processedImage, isProcessing, pending, batchImages,
                 idCardSide, idCardFront, cameraAsked, scans>>
  /\ UNCHANGED <<callVars, serverVars>>

\* autoDetectCorners with an answer that is an array of length 4.
autoDetectCornersOf(answer) ==
  /\ CropShown
  /\ corners' = answer
  /\ UNCHANGED <<state, scanMode, currentImage, rotation, passed,
                 editingScanId, dragVars>>
  /\ UNCHANGED <<flowVars, callVars, serverVars>>

\* processCrop up to img.src = currentImage. The Crop button is disabled
\* while isProcessing; the callback keeps the corners, the rotation and the
\* image of this render.
processCropCall ==
  /\ CropShown
  /\ ~isProcessing
  /\ isProcessing' = TRUE
  /\ pending' = [stage |-> "img", corners |-> corners, rotation |-> rotation,
                 image |-> currentImage, width |-> 0, height |-> 0]
  /\ passed' = NoCall
  /\ UNCHANGED <<state, scanMode, currentImage, corners, rotation,
                 editingScanId, dragVars>>
  /\ UNCHANGED <<processedImage, uploadQueue, batchTotal, batchImages,
                 idCardSide, idCardFront, cameraAsked, scans>>
  /\ UNCHANGED <<callVars, serverVars>>

\* applyTransform(ctx, img, corners, targetWidth, targetHeight) and the three
\* setters after it: createImageData throws for an empty raster and the
\* setters are not reached.
TransformAndShow(cs, w, ht) ==
  /\ passed' = [made |-> TRUE, corners |-> cs, width |-> w, height |-> ht]
  /\ IF ZeroSized(w, ht)
     THEN UNCHANGED <<processedImage, state, isProcessing>>
     ELSE /\ processedImage' = [naturalWidth |-> w, naturalHeight |-> ht]
          /\ state' = "preview"
          /\ isProcessing' = FALSE

\* img.onload of processCrop; ctx tells whether getContext('2d') gave a
\* context for the output canvas (the rotation canvas always gets one).
imgOnload(ctx) ==
  /\ pending.stage = "img"
  /\ LET aw == avgWidth(pending.corners)
         ah == avgHeight(pending.corners)
         tw == TargetSize(aw, ah)[1]
         th == TargetSize(aw, ah)[2]
     IN  IF TooSmall(aw, ah)
         THEN /\ isProcessing' = FALSE
              /\ pending' = Idle
              /\ UNCHANGED <<state, processedImage, passed>>
         ELSE IF ~ctx
         THEN /\ isProcessing' = FALSE
              /\ pending' = Idle
              /\ UNCHANGED <<state, processedImage, passed>>
         ELSE IF pending.rotation # 0
         THEN /\ pending' = [pending EXCEPT !.stage = "rotated",
                                            !.width = tw, !.height = th]
              /\ UNCHANGED <<state, processedImage, passed, isProcessing>>
         ELSE /\ TransformAndShow(pending.corners, tw, th)
              /\ pending' = Idle
  /\ UNCHANGED <<scanMode, currentImage, corners, rotation, editingScanId,
                 dragVars>>
  /\ UNCHANGED <<uploadQueue, batchTotal, batchImages, idCardSide,
                 idCardFront, cameraAsked, scans>>
  /\ UNCHANGED <<callVars, serverVars>>

\* rotatedImg.onload of processCrop.
rotatedImgOnload ==
  /\ pending.stage = "rotated"
  /\ TransformAndShow(pending.corners, pending.width, pending.height)
  /\ pending' = Idle
  /\ UNCHANGED <<scanMode, currentImage, corners, rotation, editingScanId,
                 dragVars>>
  /\ UNCHANGED <<uploadQueue, batchTotal, batchImages, idCardSide,
                 idCardFront, cameraAsked, scans>>
  /\ UNCHANGED <<callVars, serverVars>>

\* The Back button of the crop screen.
CropBack ==
  /\ CropShown
  /\ state' = "capture"
  /\ UNCHANGED <<scanMode, currentImage, corners, rotation, passed,
                 editingScanId, dragVars>>
  /\ UNCHANGED <<flowVars, callVars, serverVars>>

\* The Cancel button of the crop and preview screens, confirmed.
CancelBatch ==
  /\ CropShown \/ PreviewShown
  /\ batchTotal > 1
  /\ uploadQueue' = <<>>
  /\ batchTotal' = 0
  /\ batchImages' = <<>>
  /\ state' = "home"
  /\ UNCHANGED <<scanMode, currentImage, corners, rotation, passed,
                 editingScanId, dragVars>>
  /\ UNCHANGED <<processedImage, isProcessing, pending, idCardSide,
                 idCardFront, cameraAsked, scans>>
  /\ UNCHANGED <<callVars, serverVars>>

\* The Retake button: setCurrentImage(null); startCamera().
Retake ==
  /\ CropShown
  /\ ~cameraAsked
  /\ currentImage' = NoImage
  /\ cameraAsked' = TRUE
  /\ UNCHANGED <<state, scanMode, corners, rotation, passed, editingScanId,
                 dragVars>>
  /\ UNCHANGED <<processedImage, isProcessing, pending, uploadQueue,
                 batchTotal, batchImages, idCardSide, idCardFront, scans>>
  /\ UNCHANGED <<callVars, serverVars>>

\* A click on entry k of the queue in the carousel of the crop screen, up
\* to and including tempImg.onload.
CarouselCrop(k) ==
  /\ CropShown
  /\ batchTotal > 1
  /\ k \in 1..Len(uploadQueue)
  /\ uploadQueue' = SwapQueue(uploadQueue, currentImage, k)
  /\ currentImage' = uploadQueue[k]
  /\ rotation' = 0
  /\ corners' = setInitialCorners(uploadQueue[k], scanMode)
  /\ UNCHANGED <<state, scanMode, passed, editingScanId, dragVars>>
  /\ UNCHANGED <<processedImage, isProcessing, pending, batchTotal,
                 batchImages, idCardSide, idCardFront, cameraAsked, scans>>
  /\ UNCHANGED <<callVars, serverVars>>

\* The same click in the carousel of the preview screen.
CarouselPreview(k) ==
  /\ PreviewShown
  /\ batchTotal > 1
  /\ k \in 1..Len(uploadQueue)
  /\ uploadQueue' = SwapQueue(uploadQueue, currentImage, k)
  /\ currentImage' = uploadQueue[k]
  /\ rotation' = 0
  /\ corners' = setInitialCorners(uploadQueue[k], scanMode)
  /\ state' = "crop"
  /\ UNCHANGED <<scanMode, passed, editingScanId, dragVars>>
  /\ UNCHANGED <<processedImage, isProcessing, pending, batchTotal,
                 batchImages, idCardSide, idCardFront, cameraAsked, scans>>
  /\ UNCHANGED <<callVars, serverVars>>

\* The Home button of the preview screen.
PreviewHome ==
  /\ PreviewShown
  /\ state' = "home"
  /\ UNCHANGED <<scanMode, currentImage, corners, rotation, passed,
                 editingScanId, dragVars>>
  /\ UNCHANGED <<flowVars, callVars, serverVars>>

\* The end of saveScan: the images are dropped and nextInQueue runs, or the
\* batch screen opens.
NextPage ==
  /\ processedImage' = NoImage
  /\ IF Len(uploadQueue) > 0
     THEN /\ uploadQueue' = Tail(uploadQueue)
          /\ currentImage' = Head(uploadQueue)
          /\ rotation' = 0
          /\ corners' = setInitialCorners(Head(uploadQueue), scanMode)
          /\ state' = "crop"
     ELSE /\ currentImage' = NoImage
          /\ state' = "batch"
          /\ UNCHANGED <<uploadQueue, rotation, corners>>

\* saveScan, from the button of the preview screen.
saveScanPage ==
  /\ PreviewShown
  /\ IF currentImage = NoImage
     THEN UNCHANGED <<state, currentImage, corners, rotation, editingScanId,
                      processedImage, uploadQueue, batchImages, idCardSide,
                      idCardFront, cameraAsked, scans>>
     ELSE IF editingScanId # 0
     THEN /\ scans' = [scans EXCEPT ![editingScanId].processedImage = processedImage,
                                    ![editingScanId].corners = corners]
          /\ editingScanId' = 0
          /\ currentImage' = NoImage
          /\ processedImage' = NoImage
          /\ state' = "home"
          /\ UNCHANGED <<corners, rotation, uploadQueue, batchImages,
                         idCardSide, idCardFront, cameraAsked>>
     ELSE IF scanMode = "id_card" /\ idCardSide = "front"
     THEN /\ idCardFront' = processedImage
          /\ idCardSide' = "back"
          /\ currentImage' = NoImage
          /\ processedImage' = NoImage
          /\ cameraAsked' = TRUE
          /\ UNCHANGED <<state, corners, rotation, editingScanId, uploadQueue,
                         batchImages, scans>>
     ELSE IF scanMode = "id_card" /\ idCardSide = "back" /\ idCardFront # NoImage
     THEN /\ Len(batchImages) < MaxPages
          /\ batchImages' = Append(batchImages, Combined(idCardFront, processedImage))
          /\ idCardFront' = NoImage
          /\ idCardSide' = "none"
          /\ NextPage
          /\ UNCHANGED <<editingScanId, cameraAsked, scans>>
     ELSE /\ Len(batchImages) < MaxPages
          /\ batchImages' = Append(batchImages, processedImage)
          /\ NextPage
          /\ UNCHANGED <<editingScanId, idCardSide, idCardFront, cameraAsked,
                         scans>>
  /\ UNCHANGED <<scanMode, passed, dragVars>>
  /\ UNCHANGED <<isProcessing, pending, batchTotal>>
  /\ UNCHANGED <<callVars, serverVars>>

\* The Home and Add Page buttons of the batch screen.
BatchHome ==
  /\ BatchShown
  /\ state' = "home"
  /\ UNCHANGED <<scanMode, currentImage, corners, rotation, passed,
                 editingScanId, dragVars>>
  /\ UNCHANGED <<flowVars, callVars, serverVars>>

\* finishBatch: every page becomes a record, with the corners of the moment.
finishBatch ==
  /\ BatchShown
  /\ Len(scans) + Len(batchImages) <= MaxScans
  /\ scans' = scans \o [k \in 1..Len(batchImages) |->
                          [originalImage |-> batchImages[k],
                           processedImage |-> batchImages[k],
                           corners |-> corners]]
  /\ batchImages' = <<>>
  /\ state' = "home"
  /\ UNCHANGED <<scanMode, currentImage, corners, rotation, passed,
                 editingScanId, dragVars>>
  /\ UNCHANGED <<processedImage, isProcessing, pending, uploadQueue,
                 batchTotal, idCardSide, idCardFront, cameraAsked>>
  /\ UNCHANGED <<callVars, serverVars>>

\* editScan for record k of the library.
editScanOf(k) ==
  /\ state = "home"
  /\ k \in 1..Len(scans)
  /\ editingScanId' = k
  /\ currentImage' = scans[k].originalImage
  /\ corners' = scans[k].corners
  /\ rotation' = 0
  /\ state' = "crop"
  /\ UNCHANGED <<scanMode, passed, dragVars>>
  /\ UNCHANGED <<flowVars, callVars, serverVars>>

\* The pages of a session and the library: imports, the carousels, the
\* batch and the editor, in document mode and with a context for the canvas.
InitFlow == InitMode({"document"})

NextFlow ==
  \/ \E files \in FileLists : handleFileUploadOf(files)
  \/ processCropCall
  \/ imgOnload(TRUE)
  \/ CancelBatch
  \/ \E k \in 1..MaxFiles : CarouselCrop(k)
  \/ \E k \in 1..MaxFiles : CarouselPreview(k)
  \/ PreviewHome
  \/ saveScanPage
  \/ BatchHome

SpecFlow == InitFlow /\ [][NextFlow]_vars

\* The library: pages of one file or camera frame each are saved, stored
\* and opened again in the editor.
NextEdit ==
  \/ handleFileUploadOf(<<Page(1)>>)
  \/ captureImage
  \/ CloseCamera
  \/ processCropCall
  \/ imgOnload(TRUE)
  \/ CropBack
  \/ PreviewHome
  \/ saveScanPage
  \/ BatchHome
  \/ finishBatch
  \/ \E k \in 1..MaxScans : editScanOf(k)

SpecEdit == InitFlow /\ [][NextEdit]_vars

\* The two sides of an ID card, from the camera.
InitCard == InitMode({"id_card"})

NextCard ==
  \/ startCamera
  \/ \E granted \in BOOLEAN : getUserMedia(granted)
  \/ CloseCamera
  \/ captureImage
  \/ processCropCall
  \/ imgOnload(TRUE)
  \/ handleFileUploadOf(<<Page(1)>>)
  \/ CropBack
  \/ Retake
  \/ PreviewHome
  \/ saveScanPage
  \/ BatchHome

SpecCard == InitCard /\ [][NextCard]_vars

\* The crop of one page: one imported file or camera frame, any corners,
\* rotation, and a canvas with or without a context.
InitCrop == InitMode({"document", "id_card"})

NextCrop ==
  \/ startCamera
  \/ getUserMedia(TRUE)
  \/ captureImage
  \/ handleFileUploadOf(<<Page(1)>>)
  \/ \E answer \in Strips : autoDetectCornersOf(answer)
  \/ Rotate
  \/ RotateTimer
  \/ processCropCall
  \/ \E ctx \in BOOLEAN : imgOnload(ctx)
  \/ rotatedImgOnload
  \/ CropBack
  \/ PreviewHome

SpecCrop == InitCrop /\ [][NextCrop]_vars

\* ------------------------------------------------------ the server (server.ts)
\* The tokens a request body carries; "none" stands for a body without
\* tokens or without an image.
Tokens == {"alice", "bob"}

Requests == 1..MaxRequests

NoRequest == [stage |-> "none", tokens |-> "none", used |-> "none"]

InitServer ==
  /\ InitMode({"document"})

\* POST /api/drive/upload up to its await: the 400 answer, or setCredentials
\* on the one oauth2Client and the call of drive.files.create.
PostUpload(r, tokens) ==
  /\ Len(requests) = r - 1
  /\ r \in Requests
  /\ IF tokens = "none"
     THEN /\ requests' = Append(requests, [NoRequest EXCEPT !.stage = "rejected"])
          /\ UNCHANGED credentials
     ELSE /\ requests' = Append(requests, [stage |-> "creating", tokens |-> tokens,
                                           used |-> "none"])
          /\ credentials' = tokens
  /\ UNCHANGED <<callVars, appVars, flowVars>>

\* drive.files.create sends the file: the client passed as auth is asked
\* for its credentials when the request is made.
FilesCreate(r) ==
  /\ r \in 1..Len(requests)
  /\ requests[r].stage = "creating"
  /\ requests' = [requests EXCEPT ![r].stage = "sent", ![r].used = credentials]
  /\ UNCHANGED credentials
  /\ UNCHANGED <<callVars, appVars, flowVars>>

\* The await ends: res.json(response.data), or the catch block's 500.
Respond(r, created) ==
  /\ r \in 1..Len(requests)
  /\ requests[r].stage = "sent"
  /\ requests' = [requests EXCEPT ![r].stage = IF created THEN "done" ELSE "failed"]
  /\ UNCHANGED credentials
  /\ UNCHANGED <<callVars, appVars, flowVars>>

NextServer ==
  \/ \E r \in Requests, tokens \in Tokens \cup {"none"} : PostUpload(r, tokens)
  \/ \E r \in Requests : FilesCreate(r)
  \/ \E r \in Requests, created \in BOOLEAN : Respond(r, created)

SpecServer == InitServer /\ [][NextServer]_vars

\* ------------------------------------------------- vocabulary of the claims
\* getPerspectiveTransform has returned.
Solved == pc \in {"source", "allocate", "warp", "thrown", "done"}

\* The call has ended, normally or with an exception.
Ended == pc \in {"done", "thrown"}

DstPixel(px, py) ==
  [c \in 0..3 |-> dstPixels[(py * width + px) * Channels + c]]

SrcPixel(ix, iy) ==
  [c \in 0..3 |-> srcPixels[(iy * srcWidth + ix) * Channels + c]]

White == [c \in 0..3 |-> 255]

Red == [c \in 0..3 |-> IF c \in {0, 3} THEN 255 ELSE 0]

\* u/z < k and u/z >= k for z # 0, stated without dividing.
RatioLess(u, z, k) ==
  IF Less(Num(0), z) THEN Less(u, Mul(Num(k), z)) ELSE Less(Mul(Num(k), z), u)

RatioGeq(u, z, k) ==
  IF Less(Num(0), z) THEN ~Less(u, Mul(Num(k), z)) ELSE ~Less(Mul(Num(k), z), u)

\* A source coordinate (u/z, v/z) lies in the unit cell of source pixel
\* (ix, iy): ix <= u/z < ix + 1 and iy <= v/z < iy + 1.
InCell(u, v, z, ix, iy) ==
  /\ z # Num(0)
  /\ RatioGeq(u, z, ix) /\ RatioLess(u, z, ix + 1)
  /\ RatioGeq(v, z, iy) /\ RatioLess(v, z, iy + 1)

\* A source coordinate (u/z, v/z) is finite and outside a sw x sh raster.
Outside(u, v, z, sw, sh) ==
  /\ z # Num(0)
  /\ \/ RatioLess(u, z, 0)
     \/ RatioGeq(u, z, sw)
     \/ RatioLess(v, z, 0)
     \/ RatioGeq(v, z, sh)

\* Three of the four corners lie on one line (two coincident corners included).
ThreeCollinear(q) ==
  \E c1 \in 0..3, c2 \in 0..3, c3 \in 0..3 :
    /\ c1 < c2 /\ c2 < c3
    /\ (q[c2][1] - q[c1][1]) * (q[c3][2] - q[c1][2])
         = (q[c2][2] - q[c1][2]) * (q[c3][1] - q[c1][1])

\* ------------------------------------------------------------------ claims
\* C1 (fill totality): when applyTransform has finished, the destination
\* raster has width * height * 4 entries, every one of them has been
\* assigned, and every destination pixel holds either the background fill
\* (255,255,255,255) or the four channels of some source pixel; pixels
\* whose divisor z is 0 are no exception.
FillTotality ==
  pc = "done" =>
    /\ DOMAIN dstPixels = 0..(width * height * Channels - 1)
    /\ \A k \in DOMAIN dstPixels : written[k] >= 1
    /\ \A px \in 0..(width - 1), py \in 0..(height - 1) :
         \/ DstPixel(px, py) = White
         \/ \E ix \in 0..(srcWidth - 1), iy \in 0..(srcHeight - 1) :
              DstPixel(px, py) = SrcPixel(ix, iy)

\* A finished call in which some destination pixel had z = 0 and another
\* one was sampled from the source.
FillTotalityWitness ==
  /\ pc = "done"
  /\ \E px \in 0..(width - 1), py \in 0..(height - 1) :
       HomZ(h, px, py) = Num(0) /\ DstPixel(px, py) = White
  /\ reads # {}

\* C2 (nearest-neighbour sampling): when the call has finished, every
\* destination pixel whose source coordinate (sx, sy) satisfies ix <= sx <
\* ix + 1 and iy <= sy < iy + 1 for a source pixel (ix, iy) of the raster
\* holds exactly the four channels of that source pixel.
NearestNeighbour ==
  pc = "done" =>
    \A px \in 0..(width - 1), py \in 0..(height - 1) :
      LET z == HomZ(h, px, py)
          u == HomX(h, px, py)
          v == HomY(h, px, py)
      IN  \A ix \in 0..(srcWidth - 1), iy \in 0..(srcHeight - 1) :
            InCell(u, v, z, ix, iy) => DstPixel(px, py) = SrcPixel(ix, iy)

\* A finished call on a raster of distinct colours in which a pixel with a
\* fractional source coordinate (sx = ix + 1/2) was copied from a pixel
\* other than the first.
NearestNeighbourWitness ==
  /\ pc = "done"
  /\ srcPixels = ImageData("grid", srcWidth, srcHeight)
  /\ \E px \in 0..(width - 1), py \in 0..(height - 1) :
       \E ix \in 1..(srcWidth - 1), iy \in 0..(srcHeight - 1) :
         /\ InCell(HomX(h, px, py), HomY(h, px, py), HomZ(h, px, py), ix, iy)
         /\ Mul(Num(2), HomX(h, px, py)) = Mul(Num(2 * ix + 1), HomZ(h, px, py))
         /\ DstPixel(px, py) = SrcPixel(ix, iy)

\* C3 (out-of-bounds sampling is a fill): the warp loop runs and ends
\* without an exception, and when the call has finished, every destination
\* pixel whose source coordinate is outside the source raster holds the
\* background fill, and every source index that was read belongs to a
\* source pixel that some destination pixel maps into.
OutOfBoundsFill ==
  /\ pc \in {"warp", "done"} => error = "none"
  /\ pc = "done" =>
       /\ \A px \in 0..(width - 1), py \in 0..(height - 1) :
            Outside(HomX(h, px, py), HomY(h, px, py), HomZ(h, px, py),
                    srcWidth, srcHeight)
              => DstPixel(px, py) = White
       /\ \A k \in reads :
            /\ k \in 0..(srcWidth * srcHeight * Channels - 1)
            /\ \E px \in 0..(width - 1), py \in 0..(height - 1) :
                 InCell(HomX(h, px, py), HomY(h, px, py), HomZ(h, px, py),
                        (k \div Channels) % srcWidth,
                        (k \div Channels) \div srcWidth)

\* A finished call whose quadrilateral has a corner at negative coordinates,
\* with a filled pixel whose source coordinate is negative and a sampled one.
OutOfBoundsFillWitness ==
  /\ pc = "done"
  /\ error = "none"
  /\ \E c \in 0..3 : src[c][1] < 0 /\ src[c][2] < 0
  /\ \E px \in 0..(width - 1), py \in 0..(height - 1) :
       /\ HomZ(h, px, py) # Num(0)
       /\ RatioLess(HomX(h, px, py), HomZ(h, px, py), 0)
       /\ DstPixel(px, py) = White
  /\ reads # {}

\* C4 (corner mapping): for output sizes of at least 1 x 1 and a
\* quadrilateral no three corners of which are collinear, the matrix
\* returned by getPerspectiveTransform(dst, src) maps every corner dst[c] of
\* the output rectangle to src[c]: the divisor z is not 0 there and
\* (h0*x + h1*y + h2)/z = src[c].x, (h3*x + h4*y + h5)/z = src[c].y.
CornerMapping ==
  (Solved /\ width >= 1 /\ height >= 1 /\ ~ThreeCollinear(src)) =>
    \A c \in 0..3 :
      LET px == IF c \in {1, 2} THEN width ELSE 0
          py == IF c \in {2, 3} THEN height ELSE 0
          z  == HomZ(h, px, py)
      IN  /\ z # Num(0)
          /\ HomX(h, px, py) = Mul(Num(src[c][1]), z)
          /\ HomY(h, px, py) = Mul(Num(src[c][2]), z)

\* A solved call for a quadrilateral in general position that is not a
\* parallelogram: the matrix has a perspective part (h6 or h7 is not 0).
CornerMappingWitness ==
  /\ Solved
  /\ width >= 1 /\ height >= 1
  /\ ~ThreeCollinear(src)
  /\ (h[6] # Num(0) \/ h[7] # Num(0))

\* C5 (identity): a finished call whose quadrilateral is the full rectangle
\* [(0,0),(W,0),(W,H),(0,H)] of a W x H source, with output size W x H,
\* leaves the destination raster equal to the source raster entry for
\* entry, every source entry having been read (no pixel was filled).
Identity ==
  (/\ pc = "done"
   /\ srcWidth = width /\ srcHeight = height
   /\ src = Rect(0, 0, width, height)) =>
    /\ dstPixels = srcPixels
    /\ reads = DOMAIN srcPixels

\* A finished identity call on a 2 x 2 raster of four distinct colours.
IdentityWitness ==
  /\ pc = "done"
  /\ width = 2 /\ height = 2
  /\ srcWidth = 2 /\ srcHeight = 2
  /\ src = Rect(0, 0, 2, 2)
  /\ srcPixels = ImageData("grid", 2, 2)
  /\ DstPixel(1, 1) = SrcPixel(1, 1)

\* C9 (normalisation): whenever getPerspectiveTransform has returned, for
\* degenerate corner lists and output sizes too, h has exactly the 9
\* coefficients h0..h8 and h8 is 1.
Normalisation ==
  Solved => (DOMAIN h = 0..8 /\ h[8] = Num(1))

\* A returned matrix for a quadrilateral with three collinear corners.
NormalisationWitness ==
  /\ Solved
  /\ ThreeCollinear(src)
  /\ h[8] = Num(1)

\* C10 (quad inside the frame): a finished call whose quadrilateral is an
\* upright rectangle [(x0,y0),(x1,y0),(x1,y1),(x0,y1)] with 0 <= x0 < x1 <=
\* srcWidth and 0 <= y0 < y1 <= srcHeight has filled no pixel: every
\* destination pixel is the copy of a source pixel (ix, iy) with x0 <= ix <
\* x1 and y0 <= iy < y1 that was read, and is (255,0,0,255) when the source
\* is uniformly that colour.
InsideNoFill ==
  pc = "done" =>
  \A x0 \in 0..srcWidth, x1 \in 0..srcWidth, y0 \in 0..srcHeight, y1 \in 0..srcHeight :
    (x0 < x1 /\ y0 < y1 /\ src = Rect(x0, y0, x1, y1)) =>
      \A px \in 0..(width - 1), py \in 0..(height - 1) :
        /\ \E ix \in x0..(x1 - 1), iy \in y0..(y1 - 1) :
             /\ DstPixel(px, py) = SrcPixel(ix, iy)
             /\ (iy * srcWidth + ix) * Channels \in reads
        /\ srcPixels = ImageData("red", srcWidth, srcHeight) =>
             DstPixel(px, py) = Red
        /\ srcPixels = ImageData("grid", srcWidth, srcHeight) =>
             DstPixel(px, py) # White

\* A finished call that enlarges the right column of a 2 x 2 source, a
\* rectangle strictly smaller than the frame, to 2 x 2 pixels.
InsideNoFillWitness ==
  /\ pc = "done"
  /\ srcWidth = 2 /\ srcHeight = 2
  /\ width = 2 /\ height = 2
  /\ src = Rect(1, 0, 2, 2)
  /\ \A px \in 0..1, py \in 0..1 : DstPixel(px, py) = SrcPixel(1, py)

\* C6 as the spec states it (degenerate geometry is rejected): a call whose
\* quadrilateral has three collinear corners never gets a matrix back from
\* the solver and never produces an image; it ends with
\* DegenerateGeometryError.
DegenerateRejected ==
  ThreeCollinear(src) =>
    /\ pc \notin {"source", "allocate", "warp", "done"}
    /\ pc = "thrown" => error = "DegenerateGeometryError"

\* C6 as amended (degenerate geometry is not rejected): for a quadrilateral
\* with three collinear corners the solver raises no error; it returns 9
\* finite coefficients in which every unknown whose diagonal element is
\* below the 1e-10 tolerance is 0, and the call can only fail later, in
\* createImageData, when an output dimension is 0.
DegenerateAccepted ==
  ThreeCollinear(src) =>
    /\ error \in {"none", "IndexSizeError"}
    /\ pc = "thrown" => (width = 0 \/ height = 0)
    /\ Solved =>
         /\ \A k \in 0..8 : IsFinite(h[k])
         /\ \A k \in 0..7 : BelowTolerance(A[k][k]) => h[k] = Num(0)

\* A finished call for three collinear corners: the system was singular (a
\* diagonal element is below tolerance), a matrix came back and every
\* destination entry was written.
DegenerateAcceptedWitness ==
  /\ pc = "done"
  /\ ThreeCollinear(src)
  /\ \E k \in 0..7 : BelowTolerance(A[k][k])
  /\ \A k \in DOMAIN dstPixels : written[k] = 1
  /\ canvas = [puts |-> 1, data |-> dstPixels]

PartialPivoting ==
  [][(pc = "eliminate" /\ i < N) =>
       /\ \E m \in i..(N - 1) :
            /\ A'[i] = A[m]
            /\ b'[i] = b[m]
            /\ \A j \in i..(N - 1) :
                 ~Less(MathAbs(A[m][i]), MathAbs(A[j][i]))
       /\ \A r \in 0..(i - 1) : A'[r] = A[r] /\ b'[r] = b[r]]_vars

\* After step 0 the third row built, the first with a non-zero entry in
\* column 0, stands in row 0 with its entry of b, and row 2 holds the old
\* row 0.
PartialPivotingWitness ==
  /\ pc = "eliminate"
  /\ i = 1
  /\ A[0][0] # Num(0)
  /\ A[0] = BuildA(dst(width, height), src)[2]
  /\ b[0] = BuildB(dst(width, height), src)[2]
  /\ A[0] # BuildA(dst(width, height), src)[0]
  /\ A[2] = BuildA(dst(width, height), src)[0]

\* C20 (near-zero pivot skip): an elimination step i in which every entry
\* of column i in rows i..7 is below the 1e-10 tolerance performs no
\* elimination: A and b are left as they are up to the exchange of row i
\* with one of the rows below it, the loop goes on to column i + 1 and no
\* error is raised; and no entry of A or b ever becomes non-finite, since
\* no division by such a pivot takes place.
NearZeroPivotSkip ==
  [][(pc = "eliminate" /\ i < N) =>
       /\ (\A j \in i..(N - 1) : BelowTolerance(A[j][i])) =>
            /\ \E m \in i..(N - 1) : A' = Swap(A, i, m) /\ b' = Swap(b, i, m)
            /\ i' = i + 1
            /\ pc' = "eliminate"
            /\ error' = "none"
       /\ \A r \in 0..(N - 1) :
            /\ IsFinite(b'[r])
            /\ \A k \in 0..(N - 1) : IsFinite(A'[r][k])]_vars

\* The column before the current one was skipped: its pivot is below
\* tolerance although the rows below it are not all zero rows.
NearZeroPivotSkipWitness ==
  /\ pc = "eliminate"
  /\ i >= 1
  /\ i < N
  /\ BelowTolerance(A[i - 1][i - 1])
  /\ \E j \in i..(N - 1) : \E k \in i..(N - 1) : A[j][k] # Num(0)

\* C18 (inverse-mapping direction): the system handed to the solver pairs
\* corner c of the output rectangle [(0,0),(W,0),(W,H),(0,H)], as the point
\* mapped from, with src[c], as the point mapped to; and in a finished call
\* destination pixel (0,0) has the source coordinate src[0]: h2 = src[0].x,
\* h5 = src[0].y, and the pixel is the copy of source pixel src[0] when
\* src[0] lies inside the source raster.
InverseDirection ==
  /\ (pc = "eliminate" /\ i = 0) =>
       \A c \in 0..3 :
         LET ox == IF c \in {1, 2} THEN width ELSE 0
             oy == IF c \in {2, 3} THEN height ELSE 0
             qx == src[c][1]
             qy == src[c][2]
         IN  /\ A[2 * c] = [k \in 0..7 |->
                  Num(<<ox, oy, 1, 0, 0, 0, 0 - qx * ox, 0 - qx * oy>>[k + 1])]
             /\ b[2 * c] = Num(qx)
             /\ A[2 * c + 1] = [k \in 0..7 |->
                  Num(<<0, 0, 0, ox, oy, 1, 0 - qy * ox, 0 - qy * oy>>[k + 1])]
             /\ b[2 * c + 1] = Num(qy)
  /\ pc = "done" =>
       /\ h[2] = Num(src[0][1])
       /\ h[5] = Num(src[0][2])
       /\ (src[0][1] \in 0..(srcWidth - 1) /\ src[0][2] \in 0..(srcHeight - 1)) =>
            DstPixel(0, 0) = SrcPixel(src[0][1], src[0][2])

\* A finished call with a perspective quadrilateral whose first corner is
\* source pixel (1, 1) of a raster of distinct colours, copied to (0, 0).
InverseDirectionWitness ==
  /\ pc = "done"
  /\ src[0] = <<1, 1>>
  /\ ~ThreeCollinear(src)
  /\ srcWidth = 2 /\ srcHeight = 2
  /\ srcPixels = ImageData("grid", 2, 2)
  /\ DstPixel(0, 0) = SrcPixel(1, 1)

\* C12 (frame of rectify): no step of a call changes the four corners or the
\* requested size the caller supplied; once getPerspectiveTransform has
\* returned no step changes the 9 coefficients; once the source raster has
\* been read no step changes its size or any of its bytes, the stores into
\* the destination buffer included; and the caller's canvas is written by
\* putImageData alone, with the destination raster.
FrameOfRectify ==
  [][/\ src' = src
     /\ width' = width
     /\ height' = height
     /\ Solved => h' = h
     /\ pc \in {"allocate", "warp", "thrown", "done"} =>
          /\ srcPixels' = srcPixels
          /\ srcWidth' = srcWidth
          /\ srcHeight' = srcHeight
     /\ canvas' # canvas => (pc = "warp" /\ pc' = "done" /\ canvas'.data = dstPixels)]_vars

\* The end of a call that copied source bytes into a destination raster of
\* another size, with source, corners and coefficients as they were read.
FrameOfRectifyWitness ==
  /\ pc = "done"
  /\ reads # {}
  /\ DOMAIN srcPixels # DOMAIN dstPixels
  /\ srcPixels = ImageData("grid", srcWidth, srcHeight)
  /\ h = Homography(xsol)
  /\ \E k \in DOMAIN dstPixels : k \in DOMAIN srcPixels /\ dstPixels[k] # srcPixels[k]

\* C14 (per-pixel independence): with the rows of the warp run apart and
\* interleaved in any way, no byte of the destination raster is ever stored
\* twice, every byte has been stored exactly once when the raster is put on
\* the canvas, and that raster is the one the two sequential loops produce
\* from the same matrix and source.
PerPixelIndependence ==
  /\ pc = "warp" => \A k \in DOMAIN written : written[k] <= 1
  /\ pc = "done" =>
       /\ \A k \in DOMAIN written : written[k] = 1
       /\ canvas.data =
            WarpFrom([k \in 0..(width * height * Channels - 1) |-> 0], h,
                     srcPixels, srcWidth, srcHeight, width, height, 0)

\* The last row has been completed while the first row has not been started,
\* in a warp that both copies and fills.
PerPixelIndependenceWitness ==
  /\ pc = "warp"
  /\ height >= 2
  /\ width >= 2
  /\ rowx[height - 1] = width
  /\ rowx[0] = 0
  /\ \E px \in 0..(width - 1) : DstPixel(px, height - 1) = White
  /\ \E px \in 0..(width - 1) :
       /\ DstPixel(px, height - 1) # White
       /\ written[DstIdx(px, height - 1, width)] = 1

\* C13 (determinism and call independence): whatever calls were made before
\* it, a call that returns has put on its canvas the raster that its own
\* source raster, quadrilateral and output size determine, with no error
\* pending; and a call throws exactly when its own output size has a zero
\* dimension, leaving its canvas blank.
CallIndependence ==
  /\ pc = "done" =>
       /\ canvas.data =
            applyTransform(src, width, height, srcPixels, srcWidth, srcHeight)
       /\ canvas.puts = 1
       /\ error = "none"
  /\ pc = "thrown" =>
       /\ ZeroSized(width, height)
       /\ error = "IndexSizeError"
       /\ canvas = Blank
  /\ (pc \in {"warp", "done"}) => ~ZeroSized(width, height)

\* A call has returned after both a call that returned and a call that
\* threw, and the locals it started from were those of another matrix.
CallIndependenceWitness ==
  /\ pc = "done"
  /\ prior = {"done", "thrown"}
  /\ feed.from = "caller"
  /\ src = [Rect(0, 0, MaxOut, MaxOut) EXCEPT ![2] = <<1, 1>>]
  /\ \E k \in DOMAIN dstPixels : dstPixels[k] # Fill /\ dstPixels[k] # srcPixels[k]

\* C11 (idempotence under the no-op transform): when the raster that a call
\* with quad = [(0,0),(W,0),(W,H),(0,H)], a W x H source and output size
\* W x H has produced is given to a second such call, the second call
\* produces that same raster again.
Idempotence ==
  (pc = "done" /\ feed.from = "output") => canvas.data = feed.data

\* The second call has returned, on the raster the first call made from a
\* source of distinct colours.
IdempotenceWitness ==
  /\ pc = "done"
  /\ feed.from = "output"
  /\ src = Rect(0, 0, MaxOut, MaxOut)
  /\ width = MaxOut /\ height = MaxOut
  /\ feed.data = ImageData("grid", MaxOut, MaxOut)
  /\ canvas.puts = 1
  /\ canvas.data = feed.data

\* x < y, x <= y for two finite numbers, by cross-multiplication.
Before(r, s) == r[2] > 0 /\ s[2] > 0 /\ r[1] * s[2] < s[1] * r[2]

NotAfter(r, s) == r[2] > 0 /\ s[2] > 0 /\ r[1] * s[2] <= s[1] * r[2]

\* C15 (winding order guaranteed by the caller): the four corners of every
\* applyTransform call made by processCrop are in the order top-left,
\* top-right, bottom-right, bottom-left: corner 0 is left of corner 1 and
\* above corner 3, corner 2 is right of corner 3 and below corner 1.
WindingOrder ==
  passed.made =>
    /\ Before(passed.corners[0][1], passed.corners[1][1])
    /\ Before(passed.corners[3][1], passed.corners[2][1])
    /\ Before(passed.corners[0][2], passed.corners[3][2])
    /\ Before(passed.corners[1][2], passed.corners[2][2])

\* C16 (drag clamping): a step that handles a pointer move leaves the dragged
\* corner at 0 <= x <= naturalWidth and 0 <= y <= naturalHeight and the
\* three other corners as they were.
DragClamping ==
  [][moves' # moves =>
       /\ draggingIdx \in 0..3
       /\ \A c \in 0..3 : c # draggingIdx => corners'[c] = corners[c]
       /\ NotAfter(Num(0), corners'[draggingIdx][1])
       /\ NotAfter(corners'[draggingIdx][1], Num(currentImage.naturalWidth))
       /\ NotAfter(Num(0), corners'[draggingIdx][2])
       /\ NotAfter(corners'[draggingIdx][2], Num(currentImage.naturalHeight))]_vars

\* The top-right handle has been dragged with the pointer left of and below
\* the image: it is at (0, naturalHeight), the other corners where
\* setInitialCorners had put them.
DragClampingWitness ==
  /\ state = "crop"
  /\ moves = 1
  /\ draggingIdx = 1
  /\ corners[1] = Point(0, currentImage.naturalHeight)
  /\ \A c \in {0, 2, 3} : corners[c] = setInitialCorners(currentImage, scanMode)[c]

\* C17 (output size cap): in every applyTransform call made by processCrop
\* both average edge lengths are at least 10, width and height are at most
\* 2400, the dimension along the longer pair of opposite edges is 2400 and
\* the other one is within half a pixel of 2400 times the ratio of the
\* shorter average to the longer. (wn and hn are the sums of the two
\* opposite edge lengths in units of 1/SqrtScale.)
OutputSizeCap ==
  passed.made =>
    LET wn == MathFloor(Mul(avgWidth(passed.corners), Num(2 * SqrtScale)))
        hn == MathFloor(Mul(avgHeight(passed.corners), Num(2 * SqrtScale)))
    IN  /\ wn >= 10 * 2 * SqrtScale
        /\ hn >= 10 * 2 * SqrtScale
        /\ passed.width <= 2400
        /\ passed.height <= 2400
        /\ wn > hn =>
             /\ passed.width = 2400
             /\ 2 * Abs(passed.height * wn - 2400 * hn) <= wn
        /\ hn > wn =>
             /\ passed.height = 2400
             /\ 2 * Abs(passed.width * hn - 2400 * wn) <= hn
        /\ hn = wn => (passed.width = 2400 /\ passed.height = 2400)

\* A call for a quadrilateral that is not a rectangle and whose horizontal
\* edges are the longer pair: 2400 wide and less high.
OutputSizeCapWitness ==
  /\ passed.made
  /\ moves = 1
  /\ passed.corners[0][2] # passed.corners[1][2]
  /\ passed.width = 2400
  /\ passed.height < 2400
  /\ passed.height > 1200

\* C21 (back-substitution guard): the step for unknown i, taken for i from 7
\* down to 0, sets x[i] to 0 when |A[i][i]| < 1e-10 and otherwise to
\* (b[i] - sum over j > i of A[i][j] * x[j]) / A[i][i], changes no other
\* unknown, and leaves x[i] finite; the 8 values returned are finite.
BackSubstitutionGuard ==
  [][(pc = "substitute" /\ i >= 0) =>
       /\ i' = i - 1
       /\ \A k \in 0..(N - 1) : k # i => xsol'[k] = xsol[k]
       /\ IsFinite(xsol'[i])
       /\ BelowTolerance(A[i][i]) => xsol'[i] = Num(0)
       /\ ~BelowTolerance(A[i][i]) =>
            /\ A[i][i][1] # 0
            /\ Mul(xsol'[i], A[i][i]) = Sub(b[i], RowSum(A, xsol, i, i + 1))
       /\ (i = 0 /\ pc' = "substitute") => \A k \in 0..(N - 1) : IsFinite(xsol'[k])]_vars

\* Back-substitution has ended with one unknown set to 0 by the guard, on a
\* row whose right-hand side is not 0, and another found by a division that
\* used a non-zero sum.
BackSubstitutionGuardWitness ==
  /\ pc = "substitute"
  /\ i < 0
  /\ \E r \in 0..(N - 1) : A[r][r] = Num(0) /\ b[r] # Num(0) /\ xsol[r] = Num(0)
  /\ \E r \in 0..(N - 1) :
       /\ A[r][r] # Num(0)
       /\ RowSum(A, xsol, r, r + 1) # Num(0)
       /\ xsol[r] # Num(0)

\* C22 (source reads stay inside the buffer): every index the loop reads
\* from srcPixels is (iy * srcWidth + ix) * 4 + c for the floors ix, iy of
\* the pixel's source coordinate, with 0 <= ix < srcWidth, 0 <= iy <
\* srcHeight and c in 0..3, so it lies in 0 .. srcWidth * srcHeight * 4 - 1;
\* every index the loop writes, (y * width + x) * 4 + c, is below
\* width * height * 4.
ReadsInsideBuffer ==
  [][(pc = "warp" /\ RowsLeft(y, height)) =>
       /\ x \in 0..(width - 1)
       /\ y \in 0..(height - 1)
       /\ \A c \in 0..3 :
            /\ (y * width + x) * Channels + c < width * height * Channels
            /\ (y * width + x) * Channels + c \in DOMAIN dstPixels
            /\ written'[(y * width + x) * Channels + c] = written[(y * width + x) * Channels + c] + 1
       /\ \A k \in reads' \ reads :
            /\ k \in 0..(srcWidth * srcHeight * Channels - 1)
            /\ k \in DOMAIN srcPixels
            /\ \E ix \in 0..(srcWidth - 1), iy \in 0..(srcHeight - 1), c \in 0..3 :
                 /\ ix = MathFloor(SourceX(h, x, y))
                 /\ iy = MathFloor(SourceY(h, x, y))
                 /\ k = (iy * srcWidth + ix) * Channels + c]_vars

\* A finished call that read the last pixel of the source buffer and also
\* filled a pixel whose source coordinate is on the right or bottom edge.
ReadsInsideBufferWitness ==
  /\ pc = "done"
  /\ error = "none"
  /\ srcWidth * srcHeight * Channels - 1 \in reads
  /\ \E px \in 0..(width - 1), py \in 0..(height - 1) :
       /\ \/ SourceX(h, px, py) = Num(srcWidth)
          \/ SourceY(h, px, py) = Num(srcHeight)
       /\ DstPixel(px, py) = White

\* C23 (processCrop never requests an empty output): in every applyTransform
\* call made by processCrop, for corners that passed the size test, the
\* target width and the target height are at least 1.
NonEmptyOutput ==
  passed.made => (passed.width >= 1 /\ passed.height >= 1)

\* C24 (saving never overwrites an unrelated scan): editingScanId is null
\* whenever the current image did not come from editScan, that is, while a
\* record is being edited the current image is that record's original image.
EditsOnlyWhatWasOpened ==
  (editingScanId # 0 /\ currentImage # NoImage) =>
    currentImage = scans[editingScanId].originalImage

\* C25 (the two-sided ID-card flow completes): once saveScan has stored the
\* front side, the side expected stays 'back' until the back side is saved,
\* so that the next capture is combined with the front.
BackSideAfterFront ==
  idCardFront # NoImage => idCardSide = "back"

\* C26 (the upload queue matches the last import): after an import of n
\* files the queue holds the other n - 1 files, so the page number
\* batchTotal - uploadQueue.length lies between 1 and batchTotal.
PageNumberInRange ==
  batchTotal >= 1 =>
    /\ batchTotal - Len(uploadQueue) >= 1
    /\ batchTotal - Len(uploadQueue) <= batchTotal

Count(seq, v) == Cardinality({j \in 1..Len(seq) : seq[j] = v})

\* C28 (a carousel swap preserves the pending pages): a click on entry k of
\* the queue, in the crop or the preview screen, makes that image the
\* current one and puts the image that was current at the front of the
\* queue; the queue keeps its length, the current image and the queue
\* together hold the same images as before, each as often as before, and
\* the saved pages are not changed.
CarouselSwap ==
  [][\A k \in 1..MaxFiles :
       (CarouselCrop(k) \/ CarouselPreview(k)) =>
         /\ currentImage' = uploadQueue[k]
         /\ Len(uploadQueue') = Len(uploadQueue)
         /\ uploadQueue'[1] = currentImage
         /\ \A v \in {currentImage} \cup {uploadQueue[j] : j \in 1..Len(uploadQueue)} :
              Count(<<currentImage'>> \o uploadQueue', v)
                = Count(<<currentImage>> \o uploadQueue, v)
         /\ batchImages' = batchImages]_vars

\* The last of three imported pages has been clicked in the carousel: it is
\* the current image and the first page is back at the head of the queue.
CarouselSwapWitness ==
  /\ batchTotal = 3
  /\ currentImage = Page(3)
  /\ uploadQueue = <<Page(1), Page(2)>>
  /\ batchImages = <<>>

\* C29 (the processing flag is always released): once the callbacks of a
\* processCrop invocation have run, isProcessing is false again.
ProcessingReleased ==
  pending.stage = "idle" => ~isProcessing

\* C30 (a too-small selection is rejected without effect): when the onload
\* callback of processCrop finds an average width or height below 10, it
\* makes no applyTransform call, leaves processedImage, the corners and the
\* screen as they are and sets isProcessing to false.
TooSmallRejected ==
  [][\A ctx \in BOOLEAN :
       (/\ imgOnload(ctx)
        /\ \/ Less(avgWidth(pending.corners), Num(10))
           \/ Less(avgHeight(pending.corners), Num(10))) =>
         /\ passed' = passed
         /\ ~passed'.made
         /\ processedImage' = processedImage
         /\ corners' = corners
         /\ state' = state
         /\ ~isProcessing']_vars

\* processCrop is waiting for its image on the crop screen, with a
\* selection 100 wide and 1 high: wide enough, not high enough.
TooSmallRejectedWitness ==
  /\ pending.stage = "img"
  /\ pending.corners = Strip(100, 1)
  /\ state = "crop"
  /\ isProcessing
  /\ ~passed.made

====
